---------------------------- MODULE Spec2Model ----------------------------
(***************************************************************************)
(* Kelley's Candles order-to-fulfilment pipeline.                          *)
(*                                                                         *)
(*   api/stripe-webhook.js          webhook handler, sendEmail             *)
(*   api/lib/easypost.js            calculatePackageWeight, createShipment *)
(*   api/create-checkout-session.js price table, normalisation, handler    *)
(*                                                                         *)
(* JavaScript text is modelled as a sequence of one-character strings, so  *)
(* that trimming, regular-expression matching, number parsing and number   *)
(* formatting are computed and not assumed.                                *)
(***************************************************************************)
EXTENDS Integers, Sequences, FiniteSets, TLC

(***************************************************************************)
(* JavaScript values                                                       *)
(***************************************************************************)
\* the value undefined / null where a text was expected
Undefined == <<"<undefined>">>

\* one-character symbols that have no ASCII spelling
Bullet == "<bullet>"
EnDash == "<endash>"
EmDash == "<emdash>"

Digits == <<"0", "1", "2", "3", "4", "5", "6", "7", "8", "9">>

UpperCase == <<"A", "B", "C", "D", "E", "F", "G", "H", "I", "J", "K", "L", "M",
               "N", "O", "P", "Q", "R", "S", "T", "U", "V", "W", "X", "Y", "Z">>

LowerCase == <<"a", "b", "c", "d", "e", "f", "g", "h", "i", "j", "k", "l", "m",
               "n", "o", "p", "q", "r", "s", "t", "u", "v", "w", "x", "y", "z">>

IsDigit(c) == \E i \in 1..10 : Digits[i] = c

DigitValue(c) == (CHOOSE i \in 1..10 : Digits[i] = c) - 1

IsLower(c) == \E i \in 1..26 : LowerCase[i] = c

IsUpper(c) == \E i \in 1..26 : UpperCase[i] = c

\* \s of a regular expression, over the alphabet used here
IsSpace(c) == c \in {" ", "\t"}

LowerChar(c) == IF IsUpper(c) THEN LowerCase[CHOOSE i \in 1..26 : UpperCase[i] = c] ELSE c

\* String.prototype.toLowerCase
ToLowerCase(s) == [i \in 1..Len(s) |-> LowerChar(s[i])]

\* a value is truthy unless it is undefined, null or the empty text
Truthy(s) == s # Undefined /\ s # <<>>

\* x || ""  followed by String(...)
StringOrEmpty(s) == IF Truthy(s) THEN s ELSE <<>>

RECURSIVE TrimLeft(_)
TrimLeft(s) == IF s # <<>> /\ IsSpace(Head(s)) THEN TrimLeft(Tail(s)) ELSE s

RECURSIVE TrimRight(_)
TrimRight(s) ==
    IF s # <<>> /\ IsSpace(s[Len(s)]) THEN TrimRight(SubSeq(s, 1, Len(s) - 1)) ELSE s

\* String.prototype.trim
Trim(s) == TrimRight(TrimLeft(s))

\* the character classes of the regular expressions in the sources:
\*   "space"  \s      "digit"  \d      "dash"  [<bullet><endash><emdash>-]
\*   "nonkey" [^a-z0-9 ]
InClass(c, cls) ==
    CASE cls = "space" -> IsSpace(c)
      [] cls = "digit" -> IsDigit(c)
      [] cls = "dash" -> c \in {Bullet, EnDash, EmDash, "-"}
      [] cls = "nonkey" -> ~(IsLower(c) \/ IsDigit(c) \/ c = " ")

\* the end of the longest run of characters of class cls that starts at i
\* (i - 1 when s[i] is not in the class)
RECURSIVE RunEnd(_, _, _)
RunEnd(s, i, cls) ==
    IF i <= Len(s) /\ InClass(s[i], cls) THEN RunEnd(s, i + 1, cls) ELSE i - 1

\* s.replace(/[class]+/g, " ")
RECURSIVE ReplaceRuns(_, _)
ReplaceRuns(s, cls) ==
    IF s = <<>> THEN <<>>
    ELSE IF InClass(Head(s), cls)
         THEN <<" ">> \o ReplaceRuns(SubSeq(s, RunEnd(s, 1, cls) + 1, Len(s)), cls)
         ELSE <<Head(s)>> \o ReplaceRuns(Tail(s), cls)

(***************************************************************************)
(* JavaScript numbers, in hundredths (12.5 is 1250); NaN is kept apart     *)
(***************************************************************************)
NaN == [nan |-> TRUE, h |-> 0]

Num(h) == [nan |-> FALSE, h |-> h]

RECURSIVE DigitsValue(_)
DigitsValue(ds) ==
    IF ds = <<>> THEN 0
    ELSE 10 * DigitsValue(SubSeq(ds, 1, Len(ds) - 1)) + DigitValue(ds[Len(ds)])

\* the value of a fraction's digits in hundredths (digits after the second are
\* below the resolution of the model; the inputs used have at most two)
FractionValue(ds) ==
    IF Len(ds) = 0 THEN 0
    ELSE IF Len(ds) = 1 THEN 10 * DigitValue(ds[1])
    ELSE 10 * DigitValue(ds[1]) + DigitValue(ds[2])

\* the decimal literal \d+(\.\d+)? that starts at position i of s, as
\* [last |-> its last position, value |-> its value]; s[i] is a digit
DecimalAt(s, i) ==
    LET e1 == RunEnd(s, i, "digit")
        hasFrac == e1 + 2 <= Len(s) /\ s[e1 + 1] = "." /\ IsDigit(s[e1 + 2])
        e2 == IF hasFrac THEN RunEnd(s, e1 + 2, "digit") ELSE e1
    IN  [last |-> e2,
         value |-> Num(100 * DigitsValue(SubSeq(s, i, e1))
                       + (IF hasFrac THEN FractionValue(SubSeq(s, e1 + 2, e2)) ELSE 0))]

\* parseFloat: leading white space is skipped, the longest decimal prefix is
\* read, and a text with no such prefix gives NaN
parseFloat(s) ==
    LET t == TrimLeft(s)
    IN  IF t # <<>> /\ IsDigit(t[1]) THEN DecimalAt(t, 1).value ELSE NaN

RECURSIVE NatToString(_)
NatToString(n) ==
    IF n < 10 THEN <<Digits[n + 1]>>
    ELSE NatToString(n \div 10) \o <<Digits[(n % 10) + 1]>>

\* String(number) for a non-negative number: no leading zeros, no trailing
\* zeros in the fraction, no fraction for an integer
NumberToString(x) ==
    LET whole == NatToString(x.h \div 100)
        frac == x.h % 100
    IN  IF frac = 0 THEN whole
        ELSE IF frac % 10 = 0 THEN whole \o <<".", Digits[(frac \div 10) + 1]>>
        ELSE whole \o <<".", Digits[(frac \div 10) + 1], Digits[(frac % 10) + 1]>>

(***************************************************************************)
(* api/lib/easypost.js: package weight                                     *)
(***************************************************************************)
Size6oz == <<"6", " ", "o", "z">>

Size12oz == <<"1", "2", " ", "o", "z">>

Size17oz == <<"1", "7", " ", "o", "z">>

SizeWaxMelt == <<"w", "a", "x", " ", "m", "e", "l", "t">>

CANDLE_WEIGHTS == (Size6oz :> 10) @@ (Size12oz :> 18) @@ (Size17oz :> 24)

WAX_MELT_WEIGHT == 6

BOX_WEIGHT == 4

FALLBACK_WEIGHT == 15

\* one step of the reduce with the quantity left out
ItemWeightOfOne(item) ==
    IF item.size = SizeWaxMelt THEN WAX_MELT_WEIGHT
    ELSE IF item.size \in DOMAIN CANDLE_WEIGHTS THEN CANDLE_WEIGHTS[item.size]
    ELSE FALLBACK_WEIGHT

\* one step of the reduce in calculatePackageWeight
ItemWeight(item) ==
    IF item.size = SizeWaxMelt THEN WAX_MELT_WEIGHT * item.qty
    ELSE (IF item.size \in DOMAIN CANDLE_WEIGHTS THEN CANDLE_WEIGHTS[item.size]
          ELSE FALLBACK_WEIGHT) * item.qty

RECURSIVE SumItemWeights(_)
SumItemWeights(items) ==
    IF items = <<>> THEN 0
    ELSE SumItemWeights(SubSeq(items, 1, Len(items) - 1)) + ItemWeight(items[Len(items)])

calculatePackageWeight(items) == SumItemWeights(items) + BOX_WEIGHT

(***************************************************************************)
(* api/lib/easypost.js: rate selection (lines 129-151)                     *)
(***************************************************************************)
\* a rate as the shipping processor quotes it; rate is a decimal text
Rate(c, s, p) == [carrier |-> c, service |-> s, rate |-> p]

\* no rate (undefined)
NoRate == Rate("", "", <<>>)

\* the filter of line 135-138
IsSuitable(r) ==
    r.carrier = "USPS" /\ (r.service = "GroundAdvantage" \/ r.service = "Priority")

\* the comparator (a, b) => parseFloat(a.rate) - parseFloat(b.rate) is negative
\* (a NaN difference orders nothing)
RateBefore(a, b) ==
    LET x == parseFloat(a.rate)
        y == parseFloat(b.rate)
    IN  ~x.nan /\ ~y.nan /\ x.h < y.h

\* x put into the sorted list s before the first element that must follow it
RECURSIVE InsertRate(_, _)
InsertRate(s, x) ==
    IF s = <<>> THEN <<x>>
    ELSE IF RateBefore(x, Head(s)) THEN <<x>> \o s
    ELSE <<Head(s)>> \o InsertRate(Tail(s), x)

\* Array.prototype.sort with that comparator (a stable sort)
RECURSIVE SortByRate(_)
SortByRate(s) ==
    IF s = <<>> THEN <<>>
    ELSE InsertRate(SortByRate(SubSeq(s, 1, Len(s) - 1)), s[Len(s)])

SuitableRates(rs) == SortByRate(SelectSeq(rs, IsSuitable))

\* sorted[0]: undefined for an empty array
First(rs) == IF rs = <<>> THEN NoRate ELSE rs[1]

\* the naive policy the file's comment says was replaced: the overall cheapest
SelectCheapestOverall(rs) == First(SortByRate(rs))

\* lines 134-151: lowestRate
SelectRate(rs) ==
    IF Len(SuitableRates(rs)) = 0 THEN First(SortByRate(rs)) ELSE First(SuitableRates(rs))

\* line 129 with the length test forgotten
HasNoRatesUnlessEmpty(s) == ~s.hasRates

\* line 129: !shipment.rates || shipment.rates.length === 0
HasNoRates(s) == ~s.hasRates \/ Len(s.rates) = 0

(***************************************************************************)
(* The environment: what the three external services may answer            *)
(***************************************************************************)
SeqsUpTo(S, n) == UNION {[1..k -> S] : k \in 0..n}

\* the longest rate list of a directly driven createShipment
MaxRates == 3

\* the most webhook deliveries in one behaviour
MaxDeliveries == 2

CarrierServices ==
    {<<"USPS", "GroundAdvantage">>, <<"USPS", "Priority">>, <<"USPS", "Express">>,
     <<"UPS", "Ground">>}

Prices == {<<"7", ".", "1", "0">>, <<"8", ".", "0", "0">>, <<"3", "0", ".", "0", "0">>}

RateSet ==
    {[carrier |-> cs[1], service |-> cs[2], rate |-> p] : cs \in CarrierServices, p \in Prices}

\* a shipment as Shipment.create returns it: with a rate list or without one
ShipmentWith(rs) == [created |-> TRUE, hasRates |-> TRUE, rates |-> rs]

ShipmentWithoutRates == [created |-> TRUE, hasRates |-> FALSE, rates |-> <<>>]

\* before Shipment.create has answered
NoShipment == [created |-> FALSE, hasRates |-> FALSE, rates |-> <<>>]

\* every answer of Shipment.create to a directly driven createShipment
AllShipments == {ShipmentWith(rs) : rs \in SeqsUpTo(RateSet, MaxRates)} \cup {ShipmentWithoutRates}

\* the answers of Shipment.create met by the webhook handler
WebhookShipments ==
    {ShipmentWithoutRates,
     ShipmentWith(<<>>),
     ShipmentWith(<<Rate("UPS", "Ground", <<"3", "0", ".", "0", "0">>), Rate("USPS", "GroundAdvantage", <<"8", ".", "0", "0">>)>>),
     ShipmentWith(<<Rate("UPS", "Ground", <<"7", ".", "1", "0">>), Rate("USPS", "Priority", <<"8", ".", "0", "0">>)>>),
     ShipmentWith(<<Rate("USPS", "Express", <<"3", "0", ".", "0", "0">>), Rate("UPS", "Ground", <<"7", ".", "1", "0">>)>>)}

\* err.message of an error thrown by an external call: a text, the empty
\* text, or no message at all
ErrMessages == {<<"E">>, <<>>, Undefined}

\* reading lowestRate.carrier of an undefined lowestRate (line 154)
UndefinedRateMessage == <<"C", "a", "n", "n", "o", "t", " ", "r", "e", "a", "d">>

NoRatesMessage == <<"N", "o", " ", "s", "h", "i", "p", "p", "i", "n", "g", " ", "r", "a", "t", "e", "s", " ", "a", "v", "a", "i", "l", "a", "b", "l", "e", " ", "f", "o", "r", " ", "t", "h", "i", "s", " ", "s", "h", "i", "p", "m", "e", "n", "t">>

TrackingCodes == {<<"9", "4", "0", "0">>, Undefined}

LabelUrls == {<<"L">>, Undefined}

\* tracker.public_url of a bought shipment
TrackingUrls == {<<"t", "?", "a", "&", "b">>, Undefined}

\* the shipping processor's ids of shipments
ShipmentIds == {"shp_1", "shp_2"}

\* what Shipment.retrieve answers for a bought shipment
BoughtShipments ==
    [tracking_code : TrackingCodes, label_url : LabelUrls, public_url : TrackingUrls,
     id : ShipmentIds]

SessionIds == {"cs_1", "cs_2"}

EventTypes == {"checkout.session.completed", "payment_intent.succeeded"}

\* a line item's description that is not a text (a malformed answer)
NotAString == <<"<object>">>

DefaultItemName == <<"I", "t", "e", "m">>

LineItem(q, d) == [quantity |-> q, description |-> d]

\* the answers of listLineItems met by the webhook handler (data arrays)
WebhookLineItems ==
    {<<>>,
     <<LineItem(2, <<"A", "p", "p", "l", "e", " ", "P", "i", "e", " ", Bullet, " ", "1", "2", " ", "o", "z">>)>>,
     <<LineItem(1, <<"A", "p", "p", "l", "e", " ", "P", "i", "e", " ", Bullet, " ", "1", "6", " ", "o", "z">>), LineItem(1, <<"L", "a", "v", "a", "n", "d", "e", "r", " ", Bullet, " ", "6", " ", "o", "z">>)>>,
     <<LineItem(1, Undefined)>>,
     <<LineItem(1, NotAString)>>}

\* the fields of a retrieved session the handler reads for the customer's address
SessionAnswers ==
    [fetched : {TRUE}, details_email : {Undefined, <<"a", "@", "x">>},
     customer_email : {Undefined, <<"b", "@", "x">>}]

\* before sessions.retrieve has answered
NoSession == [fetched |-> FALSE, details_email |-> Undefined, customer_email |-> Undefined]

\* process.env of one deployment, as far as the e-mail steps read it
EnvOf(key, to, from, cfrom) ==
    [RESEND_API_KEY |-> key, ORDER_NOTIFY_TO_EMAIL |-> to,
     ORDER_NOTIFY_FROM_EMAIL |-> from, CUSTOMER_CONFIRM_FROM_EMAIL |-> cfrom]

Envs ==
    {EnvOf(<<"k">>, <<"m", "@", "k">>, <<"o", "@", "k">>, <<"c", "@", "k">>),
     EnvOf(<<"k">>, <<"m", "@", "k">>, <<"o", "@", "k">>, Undefined),
     EnvOf(<<"k">>, Undefined, Undefined, <<"c", "@", "k">>),
     EnvOf(<<"k">>, Undefined, <<"o", "@", "k">>, Undefined),
     EnvOf(<<"k">>, <<"m", "@", "k">>, <<>>, Undefined),
     EnvOf(Undefined, <<"m", "@", "k">>, <<"o", "@", "k">>, <<"c", "@", "k">>)}

Requests ==
    [method : {"POST", "GET"}, sig : {"missing", "invalid", "valid"},
     rawBody : {"ok", "error"}, type : EventTypes, id : SessionIds]

NoReq == [method |-> "", sig |-> "", rawBody |-> "", type |-> "", id |-> ""]

(***************************************************************************)
(* State                                                                   *)
(***************************************************************************)
VARIABLES
    pc,             \* where the running invocation is
    req,            \* the webhook request being handled
    res,            \* the status the webhook handler answered with (0: none yet)
    calls,          \* the calls to external services made by this invocation
    env,            \* process.env
    session,        \* handler: session (as sessions.retrieve returned it)
    customerEmail,  \* handler: customerEmail
    lines,          \* handler: lines
    shippingError,  \* handler: shippingError
    trackingCode,   \* handler: trackingCode
    trackingUrl,    \* handler: trackingUrl
    labelUrl,       \* handler: labelUrl
    storeSection,   \* the label section rendered into storeHtml
    customerHtml,   \* handler: customerHtml
    sendLog,        \* the sendEmail invocations of this invocation
    orderId,        \* createShipment: orderId
    shipItems,      \* createShipment: items
    weightOz,       \* createShipment: weightOz
    shipment,       \* createShipment: shipment (as Shipment.create returned it)
    lowestRate,     \* createShipment: lowestRate
    boughtRate,     \* the rate handed to Shipment.buy when it succeeded
    shipmentResult, \* what createShipment handed to its caller
    purchases,      \* shipping processor: labels bought, per shipment reference
    delivered       \* webhook deliveries so far

VARIABLES
    ck_pc,          \* create-checkout-session: where its invocation is
    ck_req,         \* create-checkout-session: the request
    ck_res,         \* create-checkout-session: the response
    line_items,     \* create-checkout-session: line_items handed to sessions.create
    session_params, \* create-checkout-session: shipping option and metadata handed over
    ck_calls,       \* create-checkout-session: calls to the payment processor
    normalized,     \* normalizeScent on its own: a raw scent and what it became
    sized,          \* normalizeSize on its own: a raw size and what it became
    ck_headers      \* the CORS headers set on the response of an endpoint

VARIABLES
    checkoutSubmitting, \* storefront page: the in-memory flag of runCheckoutOnce
    localStorage,       \* storefront page: the browser's store and its checkoutInProgress key
    btn,                \* storefront page: the pay button
    invocations         \* storefront page: the invocations of runCheckoutOnce, oldest first

pageVars == <<checkoutSubmitting, localStorage, btn, invocations>>

ckVars ==
    <<ck_pc, ck_req, ck_res, line_items, session_params, ck_calls, normalized, sized, ck_headers,
      pageVars>>

handlerVars ==
    <<req, res, session, customerEmail, lines, shippingError, trackingCode, trackingUrl,
      labelUrl, storeSection, customerHtml, sendLog>>

shipVars ==
    <<orderId, shipItems, weightOz, shipment, lowestRate, boughtRate, shipmentResult>>

vars == <<pc, calls, env, handlerVars, shipVars, purchases, delivered, ckVars>>

NoResult ==
    [outcome |-> "none", success |-> FALSE, trackingCode |-> Undefined,
     trackingUrl |-> Undefined, labelUrl |-> Undefined, shipmentId |-> "",
     error |-> Undefined, orderId |-> ""]

\* the storefront page before its script has run: no store looked at yet
NoStorage == [access |-> "unopened", checkoutInProgress |-> "null"]

\* create-checkout-session before any request
NoCheckoutRequest == [method |-> "", origin |-> Undefined, cartIsArray |-> FALSE, cart |-> <<>>]

\* before the parameters of sessions.create are built
NoSessionParams ==
    [shipping_amount |-> 0, shipping_label |-> "", items |-> <<>>,
     metadata |-> [subtotal_cents |-> Undefined, free_shipping_applied |-> Undefined,
                   free_shipping_threshold_cents |-> Undefined, shipping_tier |-> "",
                   shipping_amount |-> Undefined, total_qty |-> Undefined]]

\* before customerHtml is built
NoHtml == [rendered |-> FALSE, orderId |-> "", session |-> NoSession, items |-> <<>>,
           tracking |-> <<>>]

\* before setCors has run: no header is set
NoHeaders == [allow_origin |-> Undefined, allow_methods |-> ""]

\* before normalizeSize is applied
NoSize == [applied |-> FALSE, raw |-> <<>>, result |-> <<>>]

\* before normalizeScent is applied
NoScent == [applied |-> 0, raw |-> <<>>, once |-> <<>>, twice |-> <<>>]

NoResponse == [status |-> 0, code |-> "", error |-> "", url |-> FALSE]

\* the locals of a fresh invocation
FreshHandler ==
    /\ session = NoSession
    /\ customerEmail = <<>>
    /\ lines = <<>>
    /\ shippingError = Undefined
    /\ trackingCode = Undefined
    /\ trackingUrl = Undefined
    /\ labelUrl = Undefined
    /\ storeSection = "unrendered"
    /\ customerHtml = NoHtml
    /\ sendLog = <<>>

FreshShipment ==
    /\ orderId = ""
    /\ shipItems = <<>>
    /\ weightOz = 0
    /\ shipment = NoShipment
    /\ boughtRate = NoRate
    /\ lowestRate = NoRate
    /\ shipmentResult = NoResult

\* the same values, given to a new invocation
ResetHandler ==
    /\ session' = NoSession
    /\ customerEmail' = <<>>
    /\ lines' = <<>>
    /\ shippingError' = Undefined
    /\ trackingCode' = Undefined
    /\ trackingUrl' = Undefined
    /\ labelUrl' = Undefined
    /\ storeSection' = "unrendered"
    /\ customerHtml' = NoHtml
    /\ sendLog' = <<>>

ResetShipment ==
    /\ orderId' = ""
    /\ shipItems' = <<>>
    /\ weightOz' = 0
    /\ shipment' = NoShipment
    /\ boughtRate' = NoRate
    /\ lowestRate' = NoRate
    /\ shipmentResult' = NoResult

Init ==
    /\ pc = "idle"
    /\ req = NoReq
    /\ res = 0
    /\ calls = <<>>
    /\ env \in Envs
    /\ FreshHandler
    /\ FreshShipment
    /\ purchases = [s \in SessionIds |-> 0]
    /\ delivered = 0
    /\ ck_pc = "idle"
    /\ ck_req = NoCheckoutRequest
    /\ ck_res = NoResponse
    /\ line_items = <<>>
    /\ session_params = NoSessionParams
    /\ ck_calls = 0
    /\ normalized = NoScent
    /\ sized = NoSize
    /\ ck_headers = NoHeaders
    /\ checkoutSubmitting = FALSE
    /\ localStorage = NoStorage
    /\ btn = [disabled |-> FALSE]
    /\ invocations = <<>>

(***************************************************************************)
(* api/stripe-webhook.js: line items and their reconstruction              *)
(***************************************************************************)
\* lines 235-247: qty and name of a listed line item
LineOf(li) ==
    [qty |-> li.quantity,
     name |-> IF Truthy(li.description) THEN li.description ELSE DefaultItemName]

\* the last position of a match of \d+\s*oz (case-insensitive) that starts at
\* position i of s, or 0 when there is none
SizeMatchEnd(s, i) ==
    IF ~(i <= Len(s) /\ IsDigit(s[i])) THEN 0
    ELSE LET e1 == RunEnd(s, i, "digit")
             e2 == RunEnd(s, e1 + 1, "space")
         IN  IF e2 + 2 <= Len(s) /\ LowerChar(s[e2 + 1]) = "o" /\ LowerChar(s[e2 + 2]) = "z"
             THEN e2 + 2
             ELSE 0

\* name.match(/(\d+\s*oz)/i)?.[1]: the leftmost match, or undefined
SizeMatch(s) ==
    LET starts == {i \in 1..Len(s) : SizeMatchEnd(s, i) > 0}
    IN  IF starts = {} THEN Undefined
        ELSE LET i == CHOOSE k \in starts : \A j \in starts : k <= j
             IN  SubSeq(s, i, SizeMatchEnd(s, i))

\* name.split(<bullet>)[0]
BeforeBullet(s) ==
    LET at == {i \in 1..Len(s) : s[i] = Bullet}
    IN  IF at = {} THEN s
        ELSE SubSeq(s, 1, (CHOOSE k \in at : \A j \in at : k <= j) - 1)

\* lines 282-287: one element of itemsForShipping
ItemForShipping(l) ==
    [size |-> IF Truthy(SizeMatch(l.name)) THEN SizeMatch(l.name) ELSE Size12oz,
     qty |-> l.qty,
     scent |-> IF Truthy(Trim(BeforeBullet(l.name))) THEN Trim(BeforeBullet(l.name))
               ELSE l.name]

ItemsForShipping(ls) == [i \in 1..Len(ls) |-> ItemForShipping(ls[i])]

\* l.name.match is not a function: the message of the TypeError
NotAFunctionMessage == <<"l", ".", "n", "a", "m", "e", ".", "m", "a", "t", "c", "h", " ", "i", "s", " ", "n", "o", "t", " ", "a", " ", "f", "u", "n", "c", "t", "i", "o", "n">>

(***************************************************************************)
(* api/lib/easypost.js: createShipment                                     *)
(***************************************************************************)
\* lines 193-205 with the error re-thrown instead of returned
ShipmentRethrown(message) ==
    [outcome |-> "threw", success |-> FALSE, trackingCode |-> Undefined,
     trackingUrl |-> Undefined, labelUrl |-> Undefined, shipmentId |-> "", error |-> message,
     orderId |-> orderId]

\* lines 193-205: the catch block turns any exception into a returned result
ShipmentFailure(message) ==
    [outcome |-> "returned", success |-> FALSE, trackingCode |-> Undefined,
     trackingUrl |-> Undefined, labelUrl |-> Undefined, shipmentId |-> "", error |-> message,
     orderId |-> orderId]

\* lines 182-192
ShipmentSuccess(bought) ==
    [outcome |-> "returned", success |-> TRUE, trackingCode |-> bought.tracking_code,
     trackingUrl |-> IF Truthy(bought.public_url) THEN bought.public_url ELSE Undefined,
     labelUrl |-> IF Truthy(bought.label_url) THEN bought.label_url ELSE Undefined,
     shipmentId |-> bought.id,
     error |-> Undefined, orderId |-> ""]

\* lines 85-94: the call, up to the first await
EnterCreateShipment(items, id) ==
    /\ orderId' = id
    /\ shipItems' = items
    /\ weightOz' = calculatePackageWeight(items)
    /\ shipment' = NoShipment
    /\ boughtRate' = NoRate
    /\ lowestRate' = NoRate
    /\ shipmentResult' = NoResult
    /\ pc' = "ship_create"

\* the items of a directly driven createShipment
DirectItems ==
    {<<>>,
     <<[size |-> Size12oz, qty |-> 2, scent |-> <<"A", "p", "p", "l", "e", " ", "P", "i", "e">>]>>,
     <<[size |-> Size6oz, qty |-> 1, scent |-> <<"L", "a", "v", "a", "n", "d", "e", "r">>],
       [size |-> SizeWaxMelt, qty |-> 3, scent |-> <<"M", "e", "l", "t">>]>>}

\* createShipment called on its own
CallCreateShipment ==
    /\ pc = "idle"
    /\ \E items \in DirectItems, id \in SessionIds : EnterCreateShipment(items, id)
    /\ UNCHANGED <<calls, env, handlerVars, purchases, delivered, ckVars>>

\* lines 96-151: Shipment.create answers, the rate is selected
ShipCreate(answers) ==
    /\ pc = "ship_create"
    /\ calls' = Append(calls, "easypost.Shipment.create")
    /\ \/ \E m \in ErrMessages :
            /\ shipmentResult' = ShipmentFailure(m)
            /\ pc' = "ship_return"
            /\ UNCHANGED <<shipment, lowestRate>>
       \/ \E s \in answers :
            /\ shipment' = s
            /\ IF HasNoRates(s)
               THEN /\ shipmentResult' = ShipmentFailure(NoRatesMessage)
                    /\ pc' = "ship_return"
                    /\ UNCHANGED lowestRate
               ELSE /\ lowestRate' = SelectRate(s.rates)
                    /\ IF lowestRate' = NoRate
                       THEN /\ shipmentResult' = ShipmentFailure(UndefinedRateMessage)
                            /\ pc' = "ship_return"
                       ELSE /\ pc' = "ship_buy"
                            /\ UNCHANGED shipmentResult
    /\ UNCHANGED <<env, handlerVars, orderId, shipItems, weightOz, boughtRate, purchases,
                   delivered, ckVars>>

\* line 172 with a failed Shipment.buy issued a second time
ShipBuyRetried ==
    /\ pc = "ship_buy"
    /\ \/ /\ calls' = Append(calls, "easypost.Shipment.buy")
          /\ purchases' = [purchases EXCEPT ![orderId] = @ + 1]
          /\ boughtRate' = lowestRate
          /\ pc' = "ship_retrieve"
          /\ UNCHANGED shipmentResult
       \/ /\ calls' = calls \o <<"easypost.Shipment.buy", "easypost.Shipment.buy">>
          /\ purchases' = [purchases EXCEPT ![orderId] = @ + 1]
          /\ boughtRate' = lowestRate
          /\ pc' = "ship_retrieve"
          /\ UNCHANGED shipmentResult
       \/ \E m \in ErrMessages :
            /\ calls' = calls \o <<"easypost.Shipment.buy", "easypost.Shipment.buy">>
            /\ shipmentResult' = ShipmentFailure(m)
            /\ pc' = "ship_return"
            /\ UNCHANGED <<purchases, boughtRate>>
    /\ UNCHANGED <<env, handlerVars, orderId, shipItems, weightOz, shipment, lowestRate,
                   delivered, ckVars>>

\* line 172: Shipment.buy answers
ShipBuy ==
    /\ pc = "ship_buy"
    /\ calls' = Append(calls, "easypost.Shipment.buy")
    /\ \/ /\ purchases' = [purchases EXCEPT ![orderId] = @ + 1]
          /\ boughtRate' = lowestRate
          /\ pc' = "ship_retrieve"
          /\ UNCHANGED shipmentResult
       \/ \E m \in ErrMessages :
            /\ shipmentResult' = ShipmentFailure(m)
            /\ pc' = "ship_return"
            /\ UNCHANGED <<purchases, boughtRate>>
    /\ UNCHANGED <<env, handlerVars, orderId, shipItems, weightOz, shipment, lowestRate,
                   delivered, ckVars>>

\* lines 175-192: Shipment.retrieve answers
ShipRetrieve ==
    /\ pc = "ship_retrieve"
    /\ calls' = Append(calls, "easypost.Shipment.retrieve")
    /\ \/ \E b \in BoughtShipments : shipmentResult' = ShipmentSuccess(b)
       \/ \E m \in ErrMessages : shipmentResult' = ShipmentFailure(m)
    /\ pc' = "ship_return"
    /\ UNCHANGED <<env, handlerVars, orderId, shipItems, weightOz, shipment, lowestRate,
                   boughtRate, purchases, delivered, ckVars>>

(***************************************************************************)
(* api/stripe-webhook.js: sendEmail and the handler                        *)
(***************************************************************************)
\* a || b on texts
Or(a, b) == IF Truthy(a) THEN a ELSE b

\* line 103 testing the credential alone
MissingKeyOnly(key, from, to) == ~Truthy(key)

\* line 103: !process.env.RESEND_API_KEY || !from || !to
MissingEnvVars(key, from, to) == ~Truthy(key) \/ ~Truthy(from) \/ ~Truthy(to)

\* lines 102-132: sendEmail; kind names the caller's e-mail
sendEmail(kind, to, from) ==
    \/ /\ MissingEnvVars(env.RESEND_API_KEY, from, to)
       /\ sendLog' = Append(sendLog, [kind |-> kind, result |-> "skipped"])
       /\ UNCHANGED calls
    \/ /\ ~MissingEnvVars(env.RESEND_API_KEY, from, to)
       /\ calls' = Append(calls, "resend.emails.send")
       /\ sendLog' = Append(sendLog, [kind |-> kind, result |-> "sent"])
    \/ /\ ~MissingEnvVars(env.RESEND_API_KEY, from, to)
       /\ calls' = Append(calls, "resend.emails.send")
       /\ sendLog' = Append(sendLog, [kind |-> kind, result |-> "error"])

\* the catch of lines 517-520 answering with a server error
HandlerErrorStatus500 == 200 + 300

\* lines 517-520: the status answered when a step of the handler threw
HandlerErrorStatus == 200

\* the signature check left out
SignatureUnchecked(r) == TRUE

\* constructEvent accepts the request: the body was read and the signature
\* matches the webhook secret
SignatureVerifies(r) == r.rawBody = "ok" /\ r.sig = "valid"

\* line 197 with every event of EventTypes taken for a completed payment
HandlesEveryEventType(type) == type \in EventTypes

\* line 197: event.type === "checkout.session.completed"
HandlesEventType(type) == type = "checkout.session.completed"

\* lines 170-200: a delivery, up to the first call to the payment processor
Deliver(r) ==
    /\ pc \in {"idle", "done"}
    /\ delivered < MaxDeliveries
    /\ delivered' = delivered + 1
    /\ req' = r
    /\ calls' = <<>>
    /\ ResetHandler
    /\ ResetShipment
    /\ IF r.method # "POST" THEN res' = 405 /\ pc' = "done"
       ELSE IF r.sig = "missing" THEN res' = 400 /\ pc' = "done"
       ELSE IF ~SignatureVerifies(r) THEN res' = 400 /\ pc' = "done"
       ELSE IF ~HandlesEventType(r.type) THEN res' = 200 /\ pc' = "done"
       ELSE res' = 0 /\ pc' = "retrieve"
    /\ UNCHANGED <<env, purchases, ckVars>>

\* lines 203-223: sessions.retrieve answers; a throw lands in the catch of
\* lines 517-520
RetrieveSession ==
    /\ pc = "retrieve"
    /\ calls' = Append(calls, "stripe.sessions.retrieve")
    /\ \/ \E s \in SessionAnswers :
            /\ session' = s
            /\ customerEmail' = Or(Or(s.details_email, s.customer_email), <<>>)
            /\ pc' = "list"
            /\ UNCHANGED res
       \/ /\ res' = HandlerErrorStatus
          /\ pc' = "done"
          /\ UNCHANGED <<session, customerEmail>>
    /\ UNCHANGED <<req, env, lines, shippingError, trackingCode, trackingUrl, labelUrl,
                   storeSection, customerHtml, sendLog, shipVars, purchases, delivered,
                   ckVars>>

\* the same without the catch of lines 324-327: the TypeError reaches the
\* handler's outer catch, which answers at once
StartShipmentUncaught(ls) ==
    IF \E i \in 1..Len(ls) : ls[i].name = NotAString
    THEN /\ res' = HandlerErrorStatus
         /\ pc' = "done"
         /\ UNCHANGED <<shippingError, shipVars>>
    ELSE /\ EnterCreateShipment(ItemsForShipping(ls), req.id)
         /\ UNCHANGED <<res, shippingError>>

\* lines 280-307 once lines is known: the items are rebuilt and createShipment
\* is entered; a name that is no text makes l.name.match throw (lines 324-327)
StartShipment(ls) ==
    IF \E i \in 1..Len(ls) : ls[i].name = NotAString
    THEN /\ shippingError' = NotAFunctionMessage
         /\ pc' = "store_email"
         /\ UNCHANGED <<res, shipVars>>
    ELSE /\ EnterCreateShipment(ItemsForShipping(ls), req.id)
         /\ UNCHANGED <<res, shippingError>>

\* lines 226-307: listLineItems answers (a throw leaves lines empty)
ListLineItems ==
    /\ pc = "list"
    /\ calls' = Append(calls, "stripe.sessions.listLineItems")
    /\ \/ \E data \in WebhookLineItems :
            /\ lines' = [i \in 1..Len(data) |-> LineOf(data[i])]
            /\ StartShipment(lines')
       \/ /\ lines' = <<>>
          /\ StartShipment(<<>>)
    /\ UNCHANGED <<req, env, session, customerEmail, trackingCode, trackingUrl, labelUrl,
                   storeSection, customerHtml, sendLog, purchases, delivered, ckVars>>

\* lines 309-327: the handler takes createShipment's result
AfterShipment ==
    /\ pc = "ship_return"
    /\ req # NoReq
    /\ IF shipmentResult.outcome = "threw"
       THEN /\ shippingError' = shipmentResult.error
            /\ UNCHANGED <<trackingCode, trackingUrl, labelUrl>>
       ELSE IF shipmentResult.success
       THEN /\ trackingCode' = shipmentResult.trackingCode
            /\ trackingUrl' = shipmentResult.trackingUrl
            /\ labelUrl' = shipmentResult.labelUrl
            /\ UNCHANGED shippingError
       ELSE /\ shippingError' = shipmentResult.error
            /\ UNCHANGED <<trackingCode, trackingUrl, labelUrl>>
    /\ pc' = "store_email"
    /\ UNCHANGED <<req, res, calls, env, session, customerEmail, lines, storeSection,
                   customerHtml, sendLog, shipVars, purchases, delivered, ckVars>>

\* lines 394-413: the label section of the merchant e-mail
LabelSection(tracking, error) ==
    IF Truthy(tracking) THEN "tracking"
    ELSE IF Truthy(error) THEN "failed"
    ELSE "none"

\* escapeHtml of one character (lines 77-83)
EscapeChar(c) ==
    IF c = "&" THEN <<"&", "a", "m", "p", ";">>
    ELSE IF c = "<" THEN <<"&", "l", "t", ";">>
    ELSE IF c = ">" THEN <<"&", "g", "t", ";">>
    ELSE IF c = "\"" THEN <<"&", "q", "u", "o", "t", ";">>
    ELSE <<c>>

RECURSIVE escapeHtml(_)
\* lines 77-83: escapeHtml
escapeHtml(str) ==
    IF str = Undefined \/ str = <<>> THEN <<>>
    ELSE EscapeChar(Head(str)) \o escapeHtml(Tail(str))

\* the tracking block with the merchant's label block of lines 394-413 in its
\* place: the label link and the failure message are interpolated
TrackingBlockOfStore(tracking, url, label, error) ==
    IF Truthy(tracking)
    THEN <<escapeHtml(tracking)>>
         \o (IF Truthy(url) THEN <<escapeHtml(url)>> ELSE <<>>)
         \o (IF Truthy(label) THEN <<escapeHtml(label)>> ELSE <<>>)
    ELSE IF Truthy(error) THEN <<escapeHtml(error)>>
    ELSE <<>>

\* lines 466-477: the texts interpolated into the tracking block of the
\* customer e-mail, of the handler's trackingCode, trackingUrl, labelUrl and
\* shippingError
TrackingBlock(tracking, url, label, error) ==
    IF Truthy(tracking)
    THEN <<escapeHtml(tracking)>> \o (IF Truthy(url) THEN <<escapeHtml(url)>> ELSE <<>>)
    ELSE <<>>

\* lines 426-482: customerHtml, as the values interpolated into the template:
\* the order id, what the session gave (name, totals, address), the items and
\* the tracking block
CustomerHtml(sessionId, sess, ls, tracking, url, label, error) ==
    [rendered |-> TRUE, orderId |-> sessionId, session |-> sess, items |-> ls,
     tracking |-> TrackingBlock(tracking, url, label, error)]

\* the merchant e-mail with the response of line 516 sent right after it,
\* ahead of the customer e-mail
SendStoreEmailThenRespond ==
    /\ pc = "store_email"
    /\ storeSection' = LabelSection(trackingCode, shippingError)
    /\ sendEmail("store", env.ORDER_NOTIFY_TO_EMAIL, env.ORDER_NOTIFY_FROM_EMAIL)
    /\ res' = 200
    /\ pc' = "customer_email"
    /\ UNCHANGED <<req, env, session, customerEmail, lines, shippingError,
                   trackingCode, trackingUrl, labelUrl, customerHtml, shipVars, purchases,
                   delivered, ckVars>>

\* lines 343-415 and 484-496: the merchant e-mail
SendStoreEmail ==
    /\ pc = "store_email"
    /\ storeSection' = LabelSection(trackingCode, shippingError)
    /\ sendEmail("store", env.ORDER_NOTIFY_TO_EMAIL, env.ORDER_NOTIFY_FROM_EMAIL)
    /\ pc' = "customer_email"
    /\ UNCHANGED <<req, res, env, session, customerEmail, lines, shippingError,
                   trackingCode, trackingUrl, labelUrl, customerHtml, shipVars, purchases,
                   delivered, ckVars>>

\* lines 417-516: the customer e-mail, then the response
SendCustomerEmail ==
    /\ pc = "customer_email"
    /\ customerHtml' = CustomerHtml(req.id, session, lines, trackingCode, trackingUrl, labelUrl,
                                    shippingError)
    /\ IF Truthy(customerEmail)
       THEN sendEmail("customer", customerEmail,
                      Or(env.CUSTOMER_CONFIRM_FROM_EMAIL, env.ORDER_NOTIFY_FROM_EMAIL))
       ELSE UNCHANGED <<calls, sendLog>>
    /\ res' = 200
    /\ pc' = "done"
    /\ UNCHANGED <<req, env, session, customerEmail, lines, shippingError, trackingCode,
                   trackingUrl, labelUrl, storeSection, shipVars, purchases, delivered,
                   ckVars>>

Next ==
    \/ \E r \in Requests : Deliver(r)
    \/ RetrieveSession
    \/ ListLineItems
    \/ ShipCreate(WebhookShipments)
    \/ ShipBuy
    \/ ShipRetrieve
    \/ AfterShipment
    \/ SendStoreEmail
    \/ SendCustomerEmail

\* webhook deliveries, one after another
Spec == Init /\ [][Next]_vars

NextShipment ==
    \/ CallCreateShipment
    \/ ShipCreate(AllShipments)
    \/ ShipBuy
    \/ ShipRetrieve

InitShipment == Init /\ env = EnvOf(<<"k">>, <<"m", "@", "k">>, <<"o", "@", "k">>, <<"c", "@", "k">>)

\* createShipment driven directly, with every rate list up to MaxRates
SpecShipment == InitShipment /\ [][NextShipment]_vars

(***************************************************************************)
(* api/create-checkout-session.js: price table and normalisation           *)
(***************************************************************************)
ApplePie == <<"A", "p", "p", "l", "e", " ", "P", "i", "e">>

LoveSpelling == <<"L", "o", "v", "e", " ", "S", "p", "e", "l", "l", "i", "n", "g">>

BlackRaspberry == <<"B", "l", "a", "c", "k", " ", "R", "a", "s", "p", "b", "e", "r", "r", "y">>

MonkeyFarts == <<"M", "o", "n", "k", "e", "y", " ", "F", "a", "r", "t", "s">>

LilacBush == <<"L", "i", "l", "a", "c", " ", "B", "u", "s", "h">>

Lavander == <<"L", "a", "v", "a", "n", "d", "e", "r">>

Size16oz == <<"1", "6", " ", "o", "z">>

\* `${scent}|${size}`
PriceKey(scent, size) == scent \o <<"|">> \o size

PRICE_MAP ==
    [k \in {PriceKey(sc, Size16oz) :
              sc \in {ApplePie, LoveSpelling, BlackRaspberry, MonkeyFarts, LilacBush, Lavander}}
       |-> 1600]
    @@ [k \in {PriceKey(sc, Size12oz) :
                 sc \in {ApplePie, BlackRaspberry, MonkeyFarts, LilacBush}}
          |-> 1200]
    @@ [k \in {PriceKey(sc, Size6oz) :
                 sc \in {ApplePie, BlackRaspberry, MonkeyFarts, LilacBush, Lavander}}
          |-> 600]

\* the table with "raspberry" sent to a value that is itself the text of
\* another alias
SCENT_ALIASES_Chained ==
    (<<"b", "l", "a", "c", "k", " ", "r", "a", "s", "p", "b", "e", "r", "r", "y", " ", "v", "a", "n", "i", "l", "l", "a", " ", "b", "e", "a", "n">> :> BlackRaspberry)
    @@ (<<"b", "l", "a", "c", "k", " ", "r", "a", "s", "p", "b", "e", "r", "r", "y", " ", "v", "a", "n", "i", "l", "l", "a">> :> BlackRaspberry)
    @@ (<<"b", "l", "a", "c", "k", " ", "r", "a", "s", "p", "b", "e", "r", "r", "y">> :> BlackRaspberry)
    @@ (<<"r", "a", "s", "p", "b", "e", "r", "r", "y">> :> <<"B", "l", "a", "c", "k", " ", "R", "a", "s", "p", "b", "e", "r", "r", "y", " ", "V", "a", "n", "i", "l", "l", "a">>)
    @@ (<<"a", "p", "p", "l", "e">> :> ApplePie)
    @@ (<<"a", "p", "p", "l", "e", " ", "p", "i", "e">> :> ApplePie)
    @@ (<<"a", "p", "p", "l", "e", "p", "i", "e">> :> ApplePie)
    @@ (<<"a", "p", "p", "l", "e", " ", "p", "i", "e", " ", "c", "a", "n", "d", "l", "e">> :> ApplePie)

\* lines 23-32
SCENT_ALIASES ==
    (<<"b", "l", "a", "c", "k", " ", "r", "a", "s", "p", "b", "e", "r", "r", "y", " ", "v", "a", "n", "i", "l", "l", "a", " ", "b", "e", "a", "n">> :> BlackRaspberry)
    @@ (<<"b", "l", "a", "c", "k", " ", "r", "a", "s", "p", "b", "e", "r", "r", "y", " ", "v", "a", "n", "i", "l", "l", "a">> :> BlackRaspberry)
    @@ (<<"b", "l", "a", "c", "k", " ", "r", "a", "s", "p", "b", "e", "r", "r", "y">> :> BlackRaspberry)
    @@ (<<"r", "a", "s", "p", "b", "e", "r", "r", "y">> :> BlackRaspberry)
    @@ (<<"a", "p", "p", "l", "e">> :> ApplePie)
    @@ (<<"a", "p", "p", "l", "e", " ", "p", "i", "e">> :> ApplePie)
    @@ (<<"a", "p", "p", "l", "e", "p", "i", "e">> :> ApplePie)
    @@ (<<"a", "p", "p", "l", "e", " ", "p", "i", "e", " ", "c", "a", "n", "d", "l", "e">> :> ApplePie)

\* what a normalisation step hands back: a value, or a thrown error with its
\* statusCode and the kind of its message
Value(v) == [ok |-> TRUE, value |-> v, statusCode |-> 0, error |-> ""]

Thrown(code, kind) == [ok |-> FALSE, value |-> <<>>, statusCode |-> code, error |-> kind]

\* line 70: String(raw || "").trim().replace(/\s+/g, " ")
CleanScent(raw) == ReplaceRuns(Trim(StringOrEmpty(raw)), "space")

\* lines 76-81: the alias key of a cleaned scent
ScentKey(cleaned) ==
    Trim(ReplaceRuns(ReplaceRuns(ReplaceRuns(ToLowerCase(cleaned), "dash"), "nonkey"),
                     "space"))

\* lines 69-89 (ENFORCE_SCENT_ALLOWLIST is false)
normalizeScent(raw) ==
    LET cleaned == CleanScent(raw)
    IN  IF cleaned = <<>> THEN Thrown(400, "Missing scent/name")
        ELSE IF ScentKey(cleaned) \in DOMAIN SCENT_ALIASES
             THEN Value(SCENT_ALIASES[ScentKey(cleaned)])
             ELSE Value(cleaned)

\* lines 91-107 without the test of line 100: a size of zero is returned
normalizeSizeWithZero(raw) ==
    LET cleaned == ToLowerCase(Trim(StringOrEmpty(raw)))
        digitsAt == {i \in 1..Len(cleaned) : IsDigit(cleaned[i])}
    IN  IF digitsAt = {} THEN Thrown(400, "Invalid size")
        ELSE LET first == CHOOSE i \in digitsAt : \A j \in digitsAt : i <= j
             IN  Value(NumberToString(DecimalAt(cleaned, first).value) \o <<" ", "o", "z">>)

\* lines 91-107
normalizeSize(raw) ==
    LET cleaned == ToLowerCase(Trim(StringOrEmpty(raw)))
        digitsAt == {i \in 1..Len(cleaned) : IsDigit(cleaned[i])}
    IN  IF digitsAt = {} THEN Thrown(400, "Invalid size")
        ELSE LET first == CHOOSE i \in digitsAt : \A j \in digitsAt : i <= j
                 value == DecimalAt(cleaned, first).value
             IN  IF value.h <= 0 THEN Thrown(400, "Invalid size")
                 ELSE Value(NumberToString(value) \o <<" ", "o", "z">>)

\* a raw qty of the request body: undefined, a number or a text
QtyUndefined == [kind |-> "undefined", num |-> NaN, text |-> <<>>]

QtyNumber(h) == [kind |-> "number", num |-> Num(h), text |-> <<>>]

QtyText(t) == [kind |-> "text", num |-> NaN, text |-> t]

\* Number(text): the text must be a decimal literal as a whole, with or without
\* a sign (white space around it is allowed, the empty text is 0)
NumberOfText(t) ==
    LET u == Trim(t)
        negative == u # <<>> /\ u[1] = "-"
        v == IF negative THEN Tail(u) ELSE u
    IN  IF u = <<>> THEN Num(0)
        ELSE IF v # <<>> /\ IsDigit(v[1]) /\ DecimalAt(v, 1).last = Len(v)
             THEN Num((IF negative THEN -1 ELSE 1) * DecimalAt(v, 1).value.h)
        ELSE NaN

\* whether a raw qty is falsy (undefined, 0, NaN, the empty text)
QtyFalsy(q) ==
    \/ q.kind = "undefined"
    \/ q.kind = "number" /\ (q.num.nan \/ q.num.h = 0)
    \/ q.kind = "text" /\ q.text = <<>>

\* line 134 with the quantity capped at the limit instead of left for line 135
\* to reject
CoerceQtyCapped(q) ==
    LET n == IF QtyFalsy(q) THEN Num(100)
             ELSE IF q.kind = "number" THEN q.num ELSE NumberOfText(q.text)
    IN  IF n.nan THEN NaN ELSE IF n.h < 100 THEN Num(100) ELSE IF n.h > 1000 THEN Num(1000) ELSE n

\* line 134: Math.max(1, Number(item.qty || 1)); Math.max gives NaN for NaN
CoerceQty(q) ==
    LET n == IF QtyFalsy(q) THEN Num(100)
             ELSE IF q.kind = "number" THEN q.num ELSE NumberOfText(q.text)
    IN  IF n.nan THEN NaN ELSE IF n.h < 100 THEN Num(100) ELSE n

\* line 142 with an unknown key given the price of the first table entry
LookupPriceOrDefault(key) == IF key \in DOMAIN PRICE_MAP THEN PRICE_MAP[key] ELSE 1600

\* line 141: PRICE_MAP[key], 0 standing for undefined
LookupPrice(key) == IF key \in DOMAIN PRICE_MAP THEN PRICE_MAP[key] ELSE 0

\* line 141 with a price the client sent preferred to the table's
UnitAmountFromClient(item, key) ==
    IF Truthy(item.price) /\ ~parseFloat(item.price).nan THEN parseFloat(item.price).h
    ELSE LookupPrice(key)

\* line 141: unit_amount is read from the table by the key alone; no field of
\* the item other than name, size and qty is read
UnitAmountOf(item, key) == LookupPrice(key)

\* lines 130-153: one cart item normalised, or the error it throws
NormalizeItem(item) ==
    LET scent == normalizeScent(Or(Or(item.candleName, item.name), item.scent))
        size == normalizeSize(item.size)
        qty == CoerceQty(item.qty)
    IN  IF ~scent.ok THEN scent
        ELSE IF ~size.ok THEN size
        ELSE IF ~qty.nan /\ qty.h > 1000 THEN Thrown(400, "Quantity limit exceeded")
        ELSE IF UnitAmountOf(item, PriceKey(scent.value, size.value)) = 0
             THEN Thrown(400, "No price found")
        ELSE Value([qty |-> qty, scent |-> scent.value, size |-> size.value,
                    unit_amount |-> UnitAmountOf(item, PriceKey(scent.value, size.value)),
                    key |-> PriceKey(scent.value, size.value)])

\* lines 156-163 with a dash for the separator of the display name
LineItemOfDashed(n) ==
    [quantity |-> n.qty, unit_amount |-> n.unit_amount,
     name |-> n.scent \o <<" ", "-", " ">> \o n.size]

\* lines 156-163: the line item built from a normalised item
LineItemOf(n) ==
    [quantity |-> n.qty, unit_amount |-> n.unit_amount,
     name |-> n.scent \o <<" ", Bullet, " ">> \o n.size]

\* String(qty) of a normalised quantity
QtyToString(q) == IF q.nan THEN <<"N", "a", "N">> ELSE NumberToString(q)

\* `${i.qty}x ${i.scent} (${i.size})`
ItemSummary(n) == QtyToString(n.qty) \o <<"x", " ">> \o n.scent \o <<" ", "(">> \o n.size \o <<")">>

\* normalizedItems.map(...).join(", ")
RECURSIVE ItemsSummary(_)
ItemsSummary(ns) ==
    IF ns = <<>> THEN <<>>
    ELSE IF Len(ns) = 1 THEN ItemSummary(ns[1])
    ELSE ItemSummary(ns[1]) \o <<",", " ">> \o ItemsSummary(Tail(ns))

\* the flat shipping fee of lines 190-202, in cents
FLAT_SHIPPING_AMOUNT == 795

\* lines 189-211: the one shipping option and the metadata
FlatSessionParams(ns) ==
    [shipping_amount |-> FLAT_SHIPPING_AMOUNT, shipping_label |-> "Standard Shipping",
     items |-> ItemsSummary(ns),
     metadata |-> [subtotal_cents |-> Undefined, free_shipping_applied |-> Undefined,
                   free_shipping_threshold_cents |-> Undefined, shipping_tier |-> "",
                   shipping_amount |-> Undefined, total_qty |-> Undefined]]

\* lines 45-52: ALLOWED_ORIGINS
ALLOWED_ORIGINS ==
    {<<"h", "t", "t", "p", "s", ":", "/", "/", "g", "r", "o", "o", "v", "e", "r", "r", ".", "g", "i", "t", "h", "u", "b", ".", "i", "o">>,
     <<"h", "t", "t", "p", "s", ":", "/", "/", "k", "e", "l", "l", "e", "y", "s", "c", "a", "n", "d", "l", "e", "s", ".", "c", "o", "m">>,
     <<"h", "t", "t", "p", "s", ":", "/", "/", "w", "w", "w", ".", "k", "e", "l", "l", "e", "y", "s", "c", "a", "n", "d", "l", "e", "s", ".", "c", "o", "m">>,
     <<"h", "t", "t", "p", ":", "/", "/", "l", "o", "c", "a", "l", "h", "o", "s", "t", ":", "5", "5", "0", "0">>,
     <<"h", "t", "t", "p", ":", "/", "/", "1", "2", "7", ".", "0", ".", "0", ".", "1", ":", "5", "5", "0", "0">>}

\* line 57 with the origin echoed whenever the request has one
OriginPresent(origin) == Truthy(origin)

\* line 57: origin && ALLOWED_ORIGINS.has(origin)
OriginAllowed(origin) == Truthy(origin) /\ origin \in ALLOWED_ORIGINS

\* lines 54-67: setCors; methods is the endpoint's Access-Control-Allow-Methods
setCors(origin, methods) ==
    [allow_origin |-> IF OriginAllowed(origin) THEN origin ELSE Undefined,
     allow_methods |-> methods]

\* req.headers.origin of a request: none, empty, listed origins, and origins
\* that are no more than close to a listed one
Origins ==
    {Undefined, <<>>,
     <<"h", "t", "t", "p", "s", ":", "/", "/", "k", "e", "l", "l", "e", "y", "s", "c", "a", "n", "d", "l", "e", "s", ".", "c", "o", "m">>, <<"h", "t", "t", "p", ":", "/", "/", "l", "o", "c", "a", "l", "h", "o", "s", "t", ":", "5", "5", "0", "0">>,
     <<"h", "t", "t", "p", "s", ":", "/", "/", "e", "v", "i", "l", ".", "e", "x", "a", "m", "p", "l", "e">>,
     <<"h", "t", "t", "p", "s", ":", "/", "/", "k", "e", "l", "l", "e", "y", "s", "c", "a", "n", "d", "l", "e", "s", ".", "c", "o", "m", ".", "e", "v", "i", "l", ".", "e", "x", "a", "m", "p", "l", "e">>,
     <<"H", "T", "T", "P", "S", ":", "/", "/", "K", "E", "L", "L", "E", "Y", "S", "C", "A", "N", "D", "L", "E", "S", ".", "C", "O", "M">>,
     <<"h", "t", "t", "p", "s", ":", "/", "/", "k", "e", "l", "l", "e", "y", "s", "c", "a", "n", "d", "l", "e", "s", ".", "c", "o", "m", "/">>,
     <<"h", "t", "t", "p", ":", "/", "/", "k", "e", "l", "l", "e", "y", "s", "c", "a", "n", "d", "l", "e", "s", ".", "c", "o", "m">>,
     <<"n", "u", "l", "l">>}

\* the origins of the requests that carry a cart
CartOrigins == {<<"h", "t", "t", "p", "s", ":", "/", "/", "g", "r", "o", "o", "v", "e", "r", "r", ".", "g", "i", "t", "h", "u", "b", ".", "i", "o">>, <<"h", "t", "t", "p", "s", ":", "/", "/", "e", "v", "i", "l", ".", "e", "x", "a", "m", "p", "l", "e">>}

(***************************************************************************)
(* api/create-checkout-session.js: the handler                             *)
(***************************************************************************)
\* the longest cart of a request
MaxCart == 2

\* a cart line as the storefront builds it; price is the display price the
\* client sends along
PricedCartItem(name, size, qty, price) ==
    [candleName |-> Undefined, name |-> name, scent |-> Undefined, size |-> size, qty |-> qty,
     price |-> price]

CartItem(name, size, qty) == PricedCartItem(name, size, qty, Undefined)

\* the cart lines a client may send: names, sizes and quantities varied one at
\* a time around a priced line
CartItems ==
    {CartItem(n, <<"1", "2", " ", "o", "z">>, QtyNumber(200)) :
        n \in {ApplePie, <<" ", "a", "p", "p", "l", "e", " ", " ", "p", "i", "e", " ">>, <<"R", "a", "s", "p", "b", "e", "r", "r", "y">>, <<"L", "a", "v", "a", "n", "d", "e", "r">>, <<"M", "y", "s", "t", "e", "r", "y">>,
               <<>>, Undefined}}
    \cup {CartItem(ApplePie, s, QtyNumber(100)) :
            s \in {<<"1", "2", "o", "z">>, <<"1", "6", " ", "O", "Z">>, <<"6">>, <<"1", "7", " ", "o", "z">>, <<"1", "2", ".", "5", " ", "o", "z">>, <<"0", " ", "o", "z">>, <<"L", "a", "r", "g", "e">>,
                   Undefined}}
    \cup {CartItem(ApplePie, <<"6", " ", "o", "z">>, q) :
            q \in {QtyUndefined, QtyNumber(0), QtyNumber(1000), QtyNumber(1100),
                   QtyNumber(250), QtyNumber(-300), QtyText(<<"3">>), QtyText(<<"a", "b", "c">>)}}
    \cup {[candleName |-> Undefined, name |-> Undefined, scent |-> <<"L", "i", "l", "a", "c", " ", "B", "u", "s", "h">>,
           size |-> <<"6", " ", "o", "z">>, qty |-> QtyNumber(100), price |-> Undefined]}
    \cup {PricedCartItem(ApplePie, <<"1", "2", " ", "o", "z">>, QtyNumber(200), <<"1">>),
          PricedCartItem(<<"M", "y", "s", "t", "e", "r", "y">>, <<"1", "2", " ", "o", "z">>, QtyNumber(200), <<"1">>)}

\* the lines that longer carts are made of: a priced line, the same line with
\* a client price, a fractional quantity, and one line for each way to fail
CoreCartItems ==
    {CartItem(ApplePie, <<"1", "2", " ", "o", "z">>, QtyNumber(200)),
     PricedCartItem(ApplePie, <<"1", "2", " ", "o", "z">>, QtyNumber(200), <<"1">>),
     CartItem(ApplePie, <<"6", " ", "o", "z">>, QtyNumber(250)),
     CartItem(Undefined, <<"1", "2", " ", "o", "z">>, QtyNumber(200)),
     CartItem(ApplePie, <<"L", "a", "r", "g", "e">>, QtyNumber(100)),
     CartItem(ApplePie, <<"6", " ", "o", "z">>, QtyNumber(1100)),
     CartItem(<<"M", "y", "s", "t", "e", "r", "y">>, <<"1", "2", " ", "o", "z">>, QtyNumber(200))}

\* the carts: the empty cart, every single line, and the carts of up to
\* MaxCart core lines
Carts == SeqsUpTo(CartItems, 1) \cup SeqsUpTo(CoreCartItems, MaxCart)

\* the requests: a POST with a cart or with a cart that is no array, and
\* requests of other methods (their body is never read)
CheckoutRequests ==
    [method : {"POST"}, origin : CartOrigins, cartIsArray : {TRUE}, cart : Carts]
    \cup [method : {"POST", "OPTIONS", "GET"}, origin : Origins, cartIsArray : {FALSE},
          cart : {<<>>}]

\* err.statusCode of an error thrown by sessions.create (0: the error has none)
StripeErrorStatusCodes == {0, 400, 402, 500}

Response(status, code, error) == [status |-> status, code |-> code, error |-> error, url |-> FALSE]

\* lines 214-221: the response to a thrown error
ErrorResponse(statusCode, error) ==
    LET status == IF statusCode # 0 THEN statusCode ELSE 500
    IN  Response(status,
                 IF status = 400 THEN "CHECKOUT_INVALID_CART" ELSE "CHECKOUT_CREATE_FAILED",
                 error)

\* cart.map: every cart item normalised, or the error it throws
NormalizeCart(cart) == [i \in 1..Len(cart) |-> NormalizeItem(cart[i])]

\* the index of the first item whose normalisation throws, or 0; cart.map
\* stops there
FirstThrowing(ns) ==
    LET bad == {i \in 1..Len(ns) : ~ns[i].ok}
    IN  IF bad = {} THEN 0 ELSE CHOOSE i \in bad : \A j \in bad : i <= j

\* normalizedItems of a cart in which no item throws
NormalizedItems(ns) == [i \in 1..Len(ns) |-> ns[i].value]

\* lines 109-175: a request, up to the call to the payment processor
CheckoutReceive(r) ==
    LET ns == NormalizeCart(r.cart)
        bad == FirstThrowing(ns)
    IN
    /\ ck_pc = "idle"
    /\ ck_req' = r
    /\ ck_headers' = setCors(r.origin, "POST, OPTIONS")
    /\ IF r.method = "OPTIONS"
       THEN ck_res' = Response(204, "", "") /\ ck_pc' = "done" /\ UNCHANGED <<line_items, session_params>>
       ELSE IF r.method # "POST"
       THEN /\ ck_res' = Response(405, "", "Method not allowed")
            /\ ck_pc' = "done"
            /\ UNCHANGED <<line_items, session_params>>
       ELSE IF ~r.cartIsArray \/ Len(r.cart) = 0
       THEN /\ ck_res' = Response(400, "", "Cart is empty")
            /\ ck_pc' = "done"
            /\ UNCHANGED <<line_items, session_params>>
       ELSE IF bad # 0
       THEN /\ ck_res' = ErrorResponse(ns[bad].statusCode, ns[bad].error)
            /\ ck_pc' = "done"
            /\ UNCHANGED <<line_items, session_params>>
       ELSE /\ line_items' = [i \in 1..Len(ns) |-> LineItemOf(ns[i].value)]
            /\ session_params' = FlatSessionParams(NormalizedItems(ns))
            /\ ck_pc' = "create"
            /\ UNCHANGED ck_res
    /\ UNCHANGED <<ck_calls, normalized, sized, pc, calls, env, handlerVars, shipVars,
                   purchases, delivered, pageVars>>

\* lines 176-221: sessions.create answers
CheckoutStripeCreate ==
    /\ ck_pc = "create"
    /\ ck_calls' = ck_calls + 1
    /\ \/ ck_res' = [status |-> 200, code |-> "", error |-> "", url |-> TRUE]
       \/ \E c \in StripeErrorStatusCodes : ck_res' = ErrorResponse(c, "stripe")
    /\ ck_pc' = "done"
    /\ UNCHANGED <<ck_req, line_items, session_params, normalized, sized, ck_headers, pc, calls,
                   env, handlerVars, shipVars, purchases, delivered, pageVars>>

NextCheckout ==
    \/ \E r \in CheckoutRequests : CheckoutReceive(r)
    \/ CheckoutStripeCreate

\* one request to create-checkout-session
SpecCheckout == InitShipment /\ [][NextCheckout]_vars

(***************************************************************************)
(* unnamed/part_003: create-checkout-session with tiered shipping          *)
(***************************************************************************)
\* lines 3-27: the price table of this version
TIERED_PRICE_MAP ==
    (PriceKey(ApplePie, Size17oz) :> 100)
    @@ [k \in {PriceKey(sc, Size17oz) :
                 sc \in {LoveSpelling, BlackRaspberry, MonkeyFarts, LilacBush, Lavander}}
          |-> 2200]
    @@ [k \in {PriceKey(sc, Size12oz) :
                 sc \in {ApplePie, BlackRaspberry, MonkeyFarts, LilacBush, LoveSpelling, Lavander}}
          |-> 1400]
    @@ [k \in {PriceKey(sc, Size6oz) :
                 sc \in {ApplePie, BlackRaspberry, MonkeyFarts, LilacBush, LoveSpelling, Lavander}}
          |-> 700]

\* line 162: PRICE_MAP[key], 0 standing for undefined
TieredLookupPrice(key) == IF key \in DOMAIN TIERED_PRICE_MAP THEN TIERED_PRICE_MAP[key] ELSE 0

\* lines 147-179: one cart item normalised, or the error it throws
TieredNormalizeItem(item) ==
    LET scent == normalizeScent(Or(Or(item.candleName, item.name), item.scent))
        size == normalizeSize(item.size)
        qty == CoerceQty(item.qty)
    IN  IF ~scent.ok THEN scent
        ELSE IF ~size.ok THEN size
        ELSE IF ~qty.nan /\ qty.h > 1000 THEN Thrown(400, "Quantity limit exceeded")
        ELSE IF TieredLookupPrice(PriceKey(scent.value, size.value)) = 0
             THEN Thrown(400, "No price found")
        ELSE Value([qty |-> qty, scent |-> scent.value, size |-> size.value,
                    unit_amount |-> TieredLookupPrice(PriceKey(scent.value, size.value)),
                    key |-> PriceKey(scent.value, size.value)])

TieredNormalizeCart(cart) == [i \in 1..Len(cart) |-> TieredNormalizeItem(cart[i])]

\* lines 115-117: getTotalQty, in hundredths; Number(i.qty) || 0 counts NaN as 0
RECURSIVE getTotalQty(_)
getTotalQty(ns) ==
    IF ns = <<>> THEN 0
    ELSE getTotalQty(SubSeq(ns, 1, Len(ns) - 1))
         + (IF ns[Len(ns)].qty.nan THEN 0 ELSE ns[Len(ns)].qty.h)

\* lines 119-124 with the second tier ending below 3
getTieredShippingBelow3(totalQty) ==
    IF totalQty <= 100 THEN [amount |-> 600, label |-> "Standard Shipping (1 candle)"]
    ELSE IF totalQty < 300 THEN [amount |-> 900, label |-> "Standard Shipping (2-3 candles)"]
    ELSE [amount |-> 1200, label |-> "Standard Shipping (4+ candles)"]

\* lines 119-124: getTieredShipping of a total quantity in hundredths
getTieredShipping(totalQty) ==
    IF totalQty <= 100 THEN [amount |-> 600, label |-> "Standard Shipping (1 candle)"]
    ELSE IF totalQty <= 300 THEN [amount |-> 900, label |-> "Standard Shipping (2-3 candles)"]
    ELSE [amount |-> 1200, label |-> "Standard Shipping (4+ candles)"]

\* line 191
FREE_SHIPPING_THRESHOLD_CENTS == 10000

\* lines 197-200: subtotalCents as a number (in hundredths of a cent); NaN as
\* soon as one quantity is NaN
RECURSIVE subtotalCents(_)
subtotalCents(ns) ==
    IF ns = <<>> THEN Num(0)
    ELSE LET rest == subtotalCents(SubSeq(ns, 1, Len(ns) - 1))
             last == ns[Len(ns)]
         IN  IF rest.nan \/ last.qty.nan THEN NaN
             ELSE Num(rest.h + last.unit_amount * last.qty.h)

\* line 203: subtotalCents >= FREE_SHIPPING_THRESHOLD_CENTS (false for NaN)
freeShippingApplied(ns) ==
    ~subtotalCents(ns).nan /\ subtotalCents(ns).h >= 100 * FREE_SHIPPING_THRESHOLD_CENTS

\* lines 205-207
finalShipping(ns) ==
    IF freeShippingApplied(ns) THEN [amount |-> 0, label |-> "Free Shipping (Orders $100+)"]
    ELSE getTieredShipping(getTotalQty(ns))

\* lines 234-261: the one shipping option and the metadata
TieredSessionParams(ns) ==
    [shipping_amount |-> finalShipping(ns).amount,
     shipping_label |-> finalShipping(ns).label,
     items |-> ItemsSummary(ns),
     metadata |-> [subtotal_cents |-> QtyToString(subtotalCents(ns)),
                   free_shipping_applied |-> IF freeShippingApplied(ns) THEN <<"t", "r", "u", "e">> ELSE <<"f", "a", "l", "s", "e">>,
                   free_shipping_threshold_cents |-> NatToString(FREE_SHIPPING_THRESHOLD_CENTS),
                   shipping_tier |-> finalShipping(ns).label,
                   shipping_amount |-> NatToString(finalShipping(ns).amount),
                   total_qty |-> NumberToString(Num(getTotalQty(ns)))]]

\* the cart lines sent to this version: quantities and prices on both sides
\* of every tier and of the free-shipping threshold
TieredCartItems ==
    {CartItem(ApplePie, Size6oz, QtyNumber(h)) : h \in {100, 200, 300, 400}}
    \cup {CartItem(Lavander, Size17oz, QtyNumber(100)),
          CartItem(Lavander, Size17oz, QtyNumber(500)),
          CartItem(ApplePie, Size17oz, QtyNumber(1000)),
          CartItem(ApplePie, Size12oz, QtyNumber(700)),
          CartItem(ApplePie, Size12oz, QtyNumber(250)),
          CartItem(ApplePie, Size12oz, QtyText(<<"a", "b", "c">>)),
          CartItem(<<"M", "y", "s", "t", "e", "r", "y">>, Size12oz, QtyNumber(100))}

TieredRequests ==
    [method : {"POST"}, origin : CartOrigins, cartIsArray : {TRUE},
     cart : SeqsUpTo(TieredCartItems, MaxCart)]
    \cup [method : {"POST", "OPTIONS", "GET"}, origin : Origins, cartIsArray : {FALSE},
          cart : {<<>>}]

\* lines 126-218: a request, up to the call to the payment processor
TieredReceive(r) ==
    LET ns == TieredNormalizeCart(r.cart)
        bad == FirstThrowing(ns)
    IN
    /\ ck_pc = "idle"
    /\ ck_req' = r
    /\ ck_headers' = setCors(r.origin, "POST, OPTIONS")
    /\ IF r.method = "OPTIONS"
       THEN /\ ck_res' = Response(200, "", "")
            /\ ck_pc' = "done"
            /\ UNCHANGED <<line_items, session_params>>
       ELSE IF r.method # "POST"
       THEN /\ ck_res' = Response(405, "", "Method not allowed")
            /\ ck_pc' = "done"
            /\ UNCHANGED <<line_items, session_params>>
       ELSE IF ~r.cartIsArray \/ Len(r.cart) = 0
       THEN /\ ck_res' = Response(400, "", "Cart is empty")
            /\ ck_pc' = "done"
            /\ UNCHANGED <<line_items, session_params>>
       ELSE IF bad # 0
       THEN /\ ck_res' = ErrorResponse(ns[bad].statusCode, ns[bad].error)
            /\ ck_pc' = "done"
            /\ UNCHANGED <<line_items, session_params>>
       ELSE /\ line_items' = [i \in 1..Len(ns) |-> LineItemOf(ns[i].value)]
            /\ session_params' = TieredSessionParams(NormalizedItems(ns))
            /\ ck_pc' = "create"
            /\ UNCHANGED ck_res
    /\ UNCHANGED <<ck_calls, normalized, sized, pc, calls, env, handlerVars, shipVars,
                   purchases, delivered, pageVars>>

\* lines 219-273: sessions.create answers
TieredStripeCreate ==
    /\ ck_pc = "create"
    /\ ck_calls' = ck_calls + 1
    /\ \/ ck_res' = [status |-> 200, code |-> "", error |-> "", url |-> TRUE]
       \/ \E c \in StripeErrorStatusCodes : ck_res' = ErrorResponse(c, "stripe")
    /\ ck_pc' = "done"
    /\ UNCHANGED <<ck_req, line_items, session_params, normalized, sized, ck_headers, pc, calls,
                   env, handlerVars, shipVars, purchases, delivered, pageVars>>

NextTiered ==
    \/ \E r \in TieredRequests : TieredReceive(r)
    \/ TieredStripeCreate

\* one request to the create-checkout-session of unnamed/part_003
SpecTiered == InitShipment /\ [][NextTiered]_vars

(***************************************************************************)
(* api/lib/easypost.js: calculatePackageWeight on its own                  *)
(***************************************************************************)
\* the longest item list weighed
MaxItems == 3

\* the items weighed: every size of the weight table, the wax melt, a size
\* the table does not hold, each once or twice
WeighedItems ==
    {[size |-> s, qty |-> q, scent |-> ApplePie] :
        s \in {Size6oz, Size12oz, Size17oz, SizeWaxMelt, Size16oz}, q \in {1, 2}}

\* line 87: calculatePackageWeight applied to an item list
WeighItems ==
    /\ pc = "idle"
    /\ \E items \in SeqsUpTo(WeighedItems, MaxItems) :
          /\ shipItems' = items
          /\ weightOz' = calculatePackageWeight(items)
    /\ pc' = "weighed"
    /\ UNCHANGED <<calls, env, handlerVars, orderId, shipment, lowestRate, boughtRate,
                   shipmentResult, purchases, delivered, ckVars>>

\* calculatePackageWeight applied to every item list of up to MaxItems items
SpecWeight == InitShipment /\ [][WeighItems]_vars

(***************************************************************************)
(* api/create-checkout-session.js: normalizeScent on its own               *)
(***************************************************************************)
\* the longest raw scent spelled out of ScentAlphabet
MaxScentLen == 3

\* characters of each class normalizeScent tells apart: upper case, lower
\* case, blank, tab, dash, punctuation
ScentAlphabet == {"A", "a", " ", "\t", "-", "!"}

\* the scents customers and the storefront write
ScentWords ==
    {ApplePie, LoveSpelling, BlackRaspberry, MonkeyFarts, LilacBush, Lavander,
     <<"A", "p", "p", "l", "e">>, <<"A", "P", "P", "L", "E", " ", " ", "P", "I", "E">>, <<"A", "p", "p", "l", "e", "-", "P", "i", "e">>, <<"a", "p", "p", "l", "e", "p", "i", "e">>, <<"A", "p", "p", "l", "e", " ", "P", "i", "e", " ", "C", "a", "n", "d", "l", "e">>,
     <<"R", "a", "s", "p", "b", "e", "r", "r", "y">>, <<"B", "l", "a", "c", "k", " ", "R", "a", "s", "p", "b", "e", "r", "r", "y", " ", "V", "a", "n", "i", "l", "l", "a">>, <<"B", "l", "a", "c", "k", " ", "R", "a", "s", "p", "b", "e", "r", "r", "y", " ", "V", "a", "n", "i", "l", "l", "a", " ", "B", "e", "a", "n">>,
     <<"B", "l", "a", "c", "k", EmDash, "R", "a", "s", "p", "b", "e", "r", "r", "y">>, <<"A", "p", "p", "l", "e", " ", "P", "i", "e", "!">>, <<"A", "p", "p", "l", "e", " ", "P", "i", "e", " ", Bullet, " ", "1", "2", " ", "o", "z">>, <<"L", "i", "l", "a", "c", " ", " ", " ", "B", "u", "s", "h">>}

\* what may stand before or after a scent
ScentPads == {<<>>, <<" ">>, <<"\t", " ">>, <<"-">>}

\* the raw scents normalizeScent is applied to: every text of up to
\* MaxScentLen characters of ScentAlphabet, and every word of ScentWords
\* between two pads
RawScents ==
    (SeqsUpTo(ScentAlphabet, MaxScentLen) \ {<<>>})
    \cup {a \o w \o b : a \in ScentPads, w \in ScentWords, b \in ScentPads}

\* lines 69-89: normalizeScent applied to a raw scent
NormalizeScentOnce(raw) ==
    /\ normalized.applied = 0
    /\ normalized' = [applied |-> 1, raw |-> raw, once |-> normalizeScent(raw), twice |-> <<>>]
    /\ UNCHANGED <<ck_pc, ck_req, ck_res, line_items, session_params, ck_calls, sized, ck_headers,
                   pc, calls, env, handlerVars, shipVars, purchases, delivered, pageVars>>

\* lines 69-89: normalizeScent applied to what it returned; an error thrown by
\* the first application is the outcome of the whole expression
NormalizeScentAgain ==
    /\ normalized.applied = 1
    /\ normalized' = [normalized EXCEPT
                         !.applied = 2,
                         !.twice = IF normalized.once.ok
                                   THEN normalizeScent(normalized.once.value)
                                   ELSE normalized.once]
    /\ UNCHANGED <<ck_pc, ck_req, ck_res, line_items, session_params, ck_calls, sized, ck_headers,
                   pc, calls, env, handlerVars, shipVars, purchases, delivered, pageVars>>

NextScent ==
    \/ \E raw \in RawScents : NormalizeScentOnce(raw)
    \/ NormalizeScentAgain

\* normalizeScent applied once and again to every raw scent of RawScents
SpecScent == InitShipment /\ [][NextScent]_vars

(***************************************************************************)
(* api/create-checkout-session.js: normalizeSize on its own                *)
(***************************************************************************)
\* the longest raw size spelled out of SizeAlphabet
MaxSizeLen == 3

\* characters normalizeSize tells apart: digits, the decimal point, a letter,
\* a blank
SizeAlphabet == {"0", "1", "2", ".", "o", " "}

\* the sizes the storefront and customers write
SizeWords ==
    {Size6oz, Size12oz, Size17oz, Size16oz, SizeWaxMelt, Undefined,
     <<"1", "6", " ", "O", "Z">>, <<"1", "2", "o", "z">>, <<"1", "2", ".", "5", " ", "o", "z">>, <<"1", "2", ".", "5", "0", " ", "o", "z">>, <<"0", "1", "2", " ", "o", "z">>, <<"0", " ", "o", "z">>, <<"L", "a", "r", "g", "e">>,
     <<".", "5", " ", "o", "z">>, <<"6", "-", "1", "2", " ", "o", "z">>, <<"0", " ", "1", "2", " ", "o", "z">>, <<" ", " ", "6", " ", "o", "z", " ">>}

\* the raw sizes normalizeSize is applied to: every text of up to MaxSizeLen
\* characters of SizeAlphabet, and every word of SizeWords
RawSizes == SeqsUpTo(SizeAlphabet, MaxSizeLen) \cup SizeWords

\* lines 91-107: normalizeSize applied to a raw size
NormalizeSizeOf(raw) ==
    /\ ~sized.applied
    /\ sized' = [applied |-> TRUE, raw |-> raw, result |-> normalizeSize(raw)]
    /\ UNCHANGED <<ck_pc, ck_req, ck_res, line_items, session_params, ck_calls, normalized,
                   ck_headers, pc, calls, env, handlerVars, shipVars, purchases, delivered, pageVars>>

NextSize == \E raw \in RawSizes : NormalizeSizeOf(raw)

\* normalizeSize applied to every raw size of RawSizes
SpecSize == InitShipment /\ [][NextSize]_vars

(***************************************************************************)
(* api/get-checkout-session.js: the session-retrieval endpoint             *)
(***************************************************************************)
\* req.query.session_id: none, blank, or an id
QuerySessionIds == {Undefined, <<" ">>, <<"c", "s", "_", "1">>}

GetSessionRequests == [method : {"GET", "OPTIONS", "POST"}, origin : Origins,
                       session_id : QuerySessionIds]

\* lines 254-263: the handler up to the first call to the payment processor
GetSessionReceive(r) ==
    /\ ck_pc = "idle"
    /\ ck_req' = r
    /\ ck_headers' = setCors(r.origin, "GET, OPTIONS")
    /\ IF r.method = "OPTIONS"
       THEN ck_res' = Response(200, "", "") /\ ck_pc' = "done"
       ELSE IF r.method # "GET"
       THEN ck_res' = Response(405, "", "Method not allowed") /\ ck_pc' = "done"
       ELSE IF Trim(StringOrEmpty(r.session_id)) = <<>>
       THEN ck_res' = Response(400, "", "Missing session_id") /\ ck_pc' = "done"
       ELSE ck_pc' = "get_retrieve" /\ UNCHANGED ck_res
    /\ UNCHANGED <<line_items, session_params, ck_calls, normalized, sized, pc, calls, env,
                   handlerVars, shipVars, purchases, delivered, pageVars>>

\* lines 265-310: sessions.retrieve and listLineItems answer, or one of them
\* throws
GetSessionAnswer ==
    /\ ck_pc = "get_retrieve"
    /\ \/ ck_calls' = ck_calls + 2 /\ ck_res' = Response(200, "", "")
       \/ \E n \in {1, 2} : ck_calls' = ck_calls + n /\ ck_res' = Response(500, "", "Server error")
    /\ ck_pc' = "done"
    /\ UNCHANGED <<ck_req, ck_headers, line_items, session_params, normalized, sized, pc, calls,
                   env, handlerVars, shipVars, purchases, delivered, pageVars>>

NextEndpoints ==
    \/ \E r \in CheckoutRequests : CheckoutReceive(r)
    \/ CheckoutStripeCreate
    \/ \E r \in GetSessionRequests : GetSessionReceive(r)
    \/ GetSessionAnswer

\* one request to the session-creation or to the session-retrieval endpoint
SpecEndpoints == InitShipment /\ [][NextEndpoints]_vars


(***************************************************************************)
(* unnamed/part_005 (script.js): runCheckoutOnce and payWithCard           *)
(***************************************************************************)
\* the most invocations of runCheckoutOnce followed in one page
MaxInvocations == 4

\* how the page's store answers: "open" takes every call, "full" throws on
\* setItem alone (no quota left), "denied" throws on every call
StorageAccess == {"open", "full", "denied"}

\* localStorage.getItem("checkoutInProgress"), or "throws"
getItem(store) ==
    IF store.access = "denied" THEN "throws" ELSE store.checkoutInProgress

\* line 63: try { localStorage.setItem("checkoutInProgress", "1") } catch (e) {}
setItem(store) ==
    IF store.access = "open" THEN [store EXCEPT !.checkoutInProgress = "1"] ELSE store

\* line 73: try { localStorage.removeItem("checkoutInProgress") } catch (e) {}
removeItem(store) ==
    IF store.access = "denied" THEN store ELSE [store EXCEPT !.checkoutInProgress = "null"]

\* lines 57-60 with the in-memory flag left out
FindsStoredLockOnly == getItem(localStorage) = "1"

\* lines 57-60: the in-memory flag is set, or the stored key reads "1" (a
\* getItem that throws is caught and finds nothing)
FindsLock == checkoutSubmitting \/ getItem(localStorage) = "1"

\* lines 69-74 without the removeItem of line 73
ReleaseFlagOnly(store) ==
    /\ btn' = [disabled |-> FALSE]
    /\ checkoutSubmitting' = FALSE
    /\ localStorage' = store

\* lines 69-74: the catch of runCheckoutOnce, the store being as store
ReleaseLock(store) ==
    /\ btn' = [disabled |-> FALSE]
    /\ checkoutSubmitting' = FALSE
    /\ localStorage' = removeItem(store)

\* the stage of the latest invocation that called run, "none" when none did
LatestRun ==
    LET ran == {i \in 1..Len(invocations) : invocations[i].stage # "returned"}
    IN  IF ran = {} THEN "none"
        ELSE invocations[CHOOSE i \in ran : \A j \in ran : j <= i].stage

\* an invocation as it enters runCheckoutOnce: what lines 57-59 find, and the
\* stage of the latest run at that moment
Entering ==
    [foundFlag |-> checkoutSubmitting, foundKey |-> getItem(localStorage) = "1",
     earlier |-> LatestRun, stage |-> "returned", ok |-> FALSE, error |-> ""]

\* the carts of getCart() and the texts of the e-mail field
PageCarts == {<<>>, <<"item">>}

PageEmails == {<<>>, <<" ">>, <<"a", "@", "b">>}

\* the page's script has run (line 43 has cleared the flag); the store may
\* hold the key of an earlier visit
OpenPage ==
    /\ localStorage.access = "unopened"
    /\ \E a \in StorageAccess, k \in {"null", "1"} :
          /\ a = "denied" => k = "null"
          /\ localStorage' = [access |-> a, checkoutInProgress |-> k]
    /\ UNCHANGED <<checkoutSubmitting, btn, invocations>>
    /\ UNCHANGED <<pc, calls, env, handlerVars, shipVars, purchases, delivered, ck_pc, ck_req,
                   ck_res, line_items, session_params, ck_calls, normalized, sized, ck_headers>>

\* lines 291-333 and 55-75: one invocation, up to the first await of run that
\* is not settled at once. A run that throws before its first fetch (lines
\* 304-314) rejects, and the catch of lines 69-74 runs before any other task.
payWithCard(cart, email) ==
    /\ localStorage.access # "unopened"
    /\ Len(invocations) < MaxInvocations
    /\ IF FindsLock
       THEN /\ invocations' = Append(invocations, Entering)
            /\ UNCHANGED <<checkoutSubmitting, localStorage, btn>>
       ELSE IF cart = <<>>
            THEN /\ ReleaseLock(setItem(localStorage))
                 /\ invocations' =
                       Append(invocations,
                              [Entering EXCEPT !.stage = "failed", !.error = "Cart is empty"])
            ELSE IF Trim(email) = <<>>
            THEN /\ ReleaseLock(setItem(localStorage))
                 /\ invocations' =
                       Append(invocations,
                              [Entering EXCEPT !.stage = "failed", !.error = "Missing email"])
            ELSE /\ checkoutSubmitting' = TRUE
                 /\ localStorage' = setItem(localStorage)
                 /\ btn' = [disabled |-> TRUE]
                 /\ invocations' = Append(invocations, [Entering EXCEPT !.stage = "fetch"])
    /\ UNCHANGED <<pc, calls, env, handlerVars, shipVars, purchases, delivered, ck_pc, ck_req,
                   ck_res, line_items, session_params, ck_calls, normalized, sized, ck_headers>>

\* line 319: the fetch of run i settles; a rejection reaches the catch of
\* lines 69-74
FetchSettles(i) ==
    /\ i <= Len(invocations)
    /\ invocations[i].stage = "fetch"
    /\ \/ /\ ReleaseLock(localStorage)
          /\ invocations' =
                [invocations EXCEPT ![i].stage = "failed", ![i].error = "Failed to fetch"]
       \/ /\ \E ok \in BOOLEAN :
                invocations' = [invocations EXCEPT ![i].stage = "json", ![i].ok = ok]
          /\ UNCHANGED <<checkoutSubmitting, localStorage, btn>>
    /\ UNCHANGED <<pc, calls, env, handlerVars, shipVars, purchases, delivered, ck_pc, ck_req,
                   ck_res, line_items, session_params, ck_calls, normalized, sized, ck_headers>>

\* lines 325-331: res.json() of run i settles; a body that does not parse and
\* a response that is not ok reach the catch; otherwise the button is locked
\* again and the page is sent to data.url
JsonSettles(i) ==
    /\ i <= Len(invocations)
    /\ invocations[i].stage = "json"
    /\ \/ /\ ReleaseLock(localStorage)
          /\ invocations' =
                [invocations EXCEPT ![i].stage = "failed", ![i].error = "Unexpected token"]
       \/ /\ ~invocations[i].ok
          /\ ReleaseLock(localStorage)
          /\ invocations' =
                [invocations EXCEPT ![i].stage = "failed", ![i].error = "Checkout failed."]
       \/ /\ invocations[i].ok
          /\ btn' = [disabled |-> TRUE]
          /\ invocations' = [invocations EXCEPT ![i].stage = "completed"]
          /\ UNCHANGED <<checkoutSubmitting, localStorage>>
    /\ UNCHANGED <<pc, calls, env, handlerVars, shipVars, purchases, delivered, ck_pc, ck_req,
                   ck_res, line_items, session_params, ck_calls, normalized, sized, ck_headers>>

NextPage ==
    \/ OpenPage
    \/ \E cart \in PageCarts, email \in PageEmails : payWithCard(cart, email)
    \/ \E i \in 1..MaxInvocations : FetchSettles(i)
    \/ \E i \in 1..MaxInvocations : JsonSettles(i)

\* one storefront page and its invocations of runCheckoutOnce
SpecPage == InitShipment /\ [][NextPage]_vars
(***************************************************************************)
(* Properties                                                              *)
(***************************************************************************)
\* this invocation called the external service operation named n
Called(n) == \E i \in 1..Len(calls) : calls[i] = n

\* this invocation invoked sendEmail for the e-mail of that kind
Attempted(kind) == \E i \in 1..Len(sendLog) : sendLog[i].kind = kind

\* the request is a POST that carries a good signature over a readable body
VerifiedPost == req.method = "POST" /\ req.sig = "valid" /\ req.rawBody = "ok"

VerifiedCompleted == VerifiedPost /\ req.type = "checkout.session.completed"

\* C1: a request that is not POST is answered 405, a POST whose signature is
\* missing or does not verify is answered 400, and in both cases the handler
\* has finished without any call to the payment processor's session API, the
\* shipping processor or the e-mail provider, and without any label bought.
C1_WebhookFailClosed ==
    /\ (req # NoReq /\ req.method # "POST")
         => res = 405 /\ pc = "done" /\ calls = <<>> /\ sendLog = <<>>
    /\ (req.method = "POST" /\ (req.sig \in {"missing", "invalid"} \/ req.rawBody = "error"))
         => res = 400 /\ pc = "done" /\ calls = <<>> /\ sendLog = <<>>

\* C1 witness: a second delivery, a POST with a bad signature, was answered 400
C1_Witness ==
    /\ pc = "done" /\ delivered = 2
    /\ req.method = "POST" /\ req.sig = "invalid" /\ req.rawBody = "ok"
    /\ res = 400

\* C2: once a POST has passed signature verification the handler never answers
\* anything but 200: no other status is ever set, the handler is never stuck
\* before its answer, and when it has finished the answer is 200.
C2_VerifiedAlways200 ==
    VerifiedPost =>
        /\ res \in {0, 200}
        /\ (pc = "done") => res = 200
        /\ (pc # "done") => ENABLED Next

\* C2 witness: a completed-payment event whose label purchase threw and whose
\* merchant e-mail failed at the provider was answered 200
C2_Witness ==
    /\ pc = "done" /\ VerifiedCompleted /\ res = 200
    /\ Called("easypost.Shipment.buy") /\ ~Called("easypost.Shipment.retrieve")
    /\ \E i \in 1..Len(sendLog) : sendLog[i] = [kind |-> "store", result |-> "error"]

\* C3 (as claimed): at most one label is ever bought per session id, however
\* often the completed-payment event is delivered.
C3_AtMostOneLabelPerSession == \A s \in SessionIds : purchases[s] <= 1

\* C4 (as claimed): every verified checkout.session.completed event has led to a
\* sendEmail call for the merchant by the time the handler has answered.
C4_MerchantAlwaysNotified == (pc = "done" /\ VerifiedCompleted) => Attempted("store")

\* C5: when the session re-fetch succeeded, the merchant e-mail is attempted
\* before the customer e-mail step and whatever the shipment step did, and by
\* the time the handler has answered the customer e-mail was attempted too
\* whenever the session has a customer address.
C5_SubStepIsolation ==
    /\ (session.fetched /\ pc \in {"customer_email", "done"}) => Attempted("store")
    /\ (session.fetched /\ pc = "done" /\ Truthy(customerEmail)) => Attempted("customer")

\* C5 witness: the shipment step threw, the merchant e-mail failed at the
\* provider, and the customer e-mail was still sent
C5_Witness ==
    /\ pc = "done"
    /\ shippingError = NotAFunctionMessage
    /\ sendLog = <<[kind |-> "store", result |-> "error"],
                   [kind |-> "customer", result |-> "sent"]>>

\* C6 (as claimed): a rendered merchant e-mail holds the tracking section or the
\* "Label creation failed" notice, never neither.
C6_LabelSectionNeverMissing == storeSection # "none"

\* the price of each quoted rate text, in cents
PriceOf(r) ==
    CASE r.rate = <<"7", ".", "1", "0">> -> 710
      [] r.rate = <<"8", ".", "0", "0">> -> 800
      [] r.rate = <<"3", "0", ".", "0", "0">> -> 3000

\* C7: the rate handed to Shipment.buy is one of the rates Shipment.create
\* returned; if some returned rate is USPS GroundAdvantage or USPS Priority it
\* is such a rate and no such rate is cheaper; if none is, no returned rate is
\* cheaper.
C7_RateSelection ==
    boughtRate # NoRate =>
        LET returned == {shipment.rates[i] : i \in 1..Len(shipment.rates)}
            preferred == {r \in returned : r.carrier = "USPS"
                                           /\ r.service \in {"GroundAdvantage", "Priority"}}
        IN  /\ boughtRate \in returned
            /\ IF preferred # {}
               THEN boughtRate \in preferred
                    /\ \A r \in preferred : PriceOf(boughtRate) <= PriceOf(r)
               ELSE \A r \in returned : PriceOf(boughtRate) <= PriceOf(r)

\* C7 witness: USPS Priority at 8.00 was bought although UPS Ground at 7.10
\* and USPS GroundAdvantage at 30.00 were quoted with it
C7_Witness ==
    /\ boughtRate = Rate("USPS", "Priority", <<"8", ".", "0", "0">>)
    /\ shipment.rates = <<Rate("UPS", "Ground", <<"7", ".", "1", "0">>),
                          Rate("USPS", "GroundAdvantage", <<"3", "0", ".", "0", "0">>),
                          Rate("USPS", "Priority", <<"8", ".", "0", "0">>)>>

\* C8: createShipment never throws: whenever it has finished it has returned a
\* result; a call that did not end in a retrieved shipment returned
\* {success: false, error, orderId}, and the handler that called it went on
\* to the e-mail steps.
C8_CreateShipmentNeverThrows ==
    /\ shipmentResult.outcome # "threw"
    /\ (pc = "ship_return") => shipmentResult.outcome = "returned"
    /\ (shipmentResult.outcome = "returned" /\ ~shipmentResult.success)
         => shipmentResult.orderId = orderId /\ shipmentResult.trackingCode = Undefined
    /\ (pc = "done" /\ shipmentResult.outcome # "none")
         => Attempted("store") /\ shippingError = shipmentResult.error

\* C8 witness: Shipment.buy threw, createShipment returned the failure and the
\* handler has attempted the merchant e-mail
C8_Witness ==
    /\ pc = "done"
    /\ Called("easypost.Shipment.buy") /\ ~Called("easypost.Shipment.retrieve")
    /\ shipmentResult.outcome = "returned" /\ ~shipmentResult.success
    /\ shipmentResult.error = <<"E">>
    /\ Attempted("store")

\* C9: when Shipment.create returns a shipment with an empty rate list or with
\* no rate list, createShipment has returned the no-rates failure, has issued
\* no Shipment.buy and no label was bought.
C9_NoRatesNoPurchase ==
    (shipment.created /\ (~shipment.hasRates \/ shipment.rates = <<>>)) =>
        /\ pc = "ship_return"
        /\ shipmentResult.outcome = "returned" /\ ~shipmentResult.success
        /\ shipmentResult.error = NoRatesMessage
        /\ ~Called("easypost.Shipment.buy")
        /\ purchases[orderId] = 0

\* C9 witness: Shipment.create returned an empty rate list
C9_Witness == shipment = ShipmentWith(<<>>) /\ pc = "ship_return"


\* the scent a cart line is priced under
LineScent(item) == normalizeScent(Or(Or(item.candleName, item.name), item.scent))

\* a cart line resolves to an existing key of the price table
Resolves(item) ==
    /\ LineScent(item).ok
    /\ normalizeSize(item.size).ok
    /\ PriceKey(LineScent(item).value, normalizeSize(item.size).value) \in DOMAIN PRICE_MAP

\* a cart line is over the quantity limit of 10
OverLimit(item) == ~CoerceQty(item.qty).nan /\ CoerceQty(item.qty).h > 1000

StripPrice(item) == [item EXCEPT !.price = Undefined]

\* a cart without any client price
PriceBlind(cart) == [i \in 1..Len(cart) |-> StripPrice(cart[i])]

\* C11: every line item handed to sessions.create carries the price-table
\* entry of its line's normalised key, and what the handler does with a cart
\* is what it does with the same cart stripped of the client's price fields:
\* the same line items, shipping option and metadata, or the same rejection.
\* Two carts that differ in price fields only are therefore treated alike.
C11_ClientPriceIgnored ==
    (ck_req.method = "POST" /\ ck_req.cartIsArray /\ Len(ck_req.cart) > 0) =>
        LET blind == NormalizeCart(PriceBlind(ck_req.cart))
        IN  IF ck_pc = "create" \/ ck_calls > 0
            THEN /\ FirstThrowing(blind) = 0
                 /\ line_items = [i \in 1..Len(blind) |-> LineItemOf(blind[i].value)]
                 /\ session_params = FlatSessionParams(NormalizedItems(blind))
                 /\ \A i \in 1..Len(line_items) :
                       /\ PriceKey(blind[i].value.scent, blind[i].value.size) \in DOMAIN PRICE_MAP
                       /\ line_items[i].unit_amount =
                            PRICE_MAP[PriceKey(blind[i].value.scent, blind[i].value.size)]
            ELSE /\ FirstThrowing(blind) # 0
                 /\ ck_res = ErrorResponse(blind[FirstThrowing(blind)].statusCode,
                                           blind[FirstThrowing(blind)].error)

\* C11 witness: a line sent with the client price "1" went to sessions.create
\* at the table's 1200
C11_Witness ==
    /\ ck_calls = 1
    /\ ck_req.cart = <<PricedCartItem(ApplePie, <<"1", "2", " ", "o", "z">>, QtyNumber(200), <<"1">>)>>
    /\ line_items[1].unit_amount = 1200
    /\ ck_res.url


\* the number a client-supplied qty stands for (NaN for none)
RawQty(item) ==
    IF item.qty.kind = "number" THEN item.qty.num
    ELSE IF item.qty.kind = "text" THEN NumberOfText(item.qty.text)
    ELSE NaN

\* the client asked for more than 10 of a line
OverTen(item) == ~RawQty(item).nan /\ RawQty(item).h > 1000

\* the client asked for a quantity from 1 to 10
OneToTen(item) == ~RawQty(item).nan /\ RawQty(item).h >= 100 /\ RawQty(item).h <= 1000

\* a cart line has a scent and a valid size
HasScentAndSize(item) == LineScent(item).ok /\ normalizeSize(item.size).ok

\* a POST with a non-empty cart
PostedCart == ck_req.method = "POST" /\ ck_req.cartIsArray /\ Len(ck_req.cart) > 0

\* the lines of the request that fail some check of cart.map
FailingLines == {i \in 1..Len(ck_req.cart) : ~Resolves(ck_req.cart[i]) \/ OverTen(ck_req.cart[i])}

C13_QuantitiesAreIntegers1To10 ==
    \A i \in 1..Len(line_items) :
        /\ ~line_items[i].quantity.nan
        /\ line_items[i].quantity.h % 100 = 0
        /\ line_items[i].quantity.h >= 100 /\ line_items[i].quantity.h <= 1000


\* C14 (as claimed): every failure response has an error message and a code;
\* status 400 comes with code CHECKOUT_INVALID_CART and only from a rejected
\* cart, before any call to the payment processor; and a failed call to the
\* payment processor is answered 500 with code CHECKOUT_CREATE_FAILED.
C14_FailureResponses ==
    (ck_pc = "done" /\ ~ck_res.url /\ ck_req.method = "POST") =>
        /\ ck_res.error # "" /\ ck_res.code # ""
        /\ (ck_res.status = 400) => (ck_res.code = "CHECKOUT_INVALID_CART" /\ ck_calls = 0)
        /\ (ck_calls > 0) => (ck_res.status = 500 /\ ck_res.code = "CHECKOUT_CREATE_FAILED")


\* the line items handed to sessions.create all carry a number as quantity
QuantitiesAreNumbers == \A i \in 1..Len(line_items) : ~line_items[i].quantity.nan

\* the sum over the line items handed over of f(line item)
RECURSIVE SumOverLines(_, _)
SumOverLines(ls, kind) ==
    IF ls = <<>> THEN 0
    ELSE SumOverLines(Tail(ls), kind)
         + (IF kind = "qty" THEN ls[1].quantity.h ELSE ls[1].unit_amount * ls[1].quantity.h)

\* the text of each shipping amount
AmountText(a) ==
    CASE a = 0 -> <<"0">>
      [] a = 600 -> <<"6", "0", "0">>
      [] a = 900 -> <<"9", "0", "0">>
      [] a = 1200 -> <<"1", "2", "0", "0">>
      [] OTHER -> Undefined

\* C15: for a session whose line items all carry a number as quantity, the
\* shipping option has amount 0 when the sum of unit_amount x quantity over the
\* line items is at least 10000 cents; below that it has amount 600 for a total
\* quantity of 1, 900 for 2 or 3 and 1200 for 4 or more; and the metadata
\* shipping_amount and free_shipping_applied state that amount and whether the
\* threshold was met.
C15_TieredShipping ==
    ((ck_pc = "create" \/ ck_calls > 0) /\ QuantitiesAreNumbers) =>
        LET subtotal == SumOverLines(line_items, "amount")
            total == SumOverLines(line_items, "qty")
            free == subtotal >= 100 * 10000
        IN  /\ free => session_params.shipping_amount = 0
            /\ (~free /\ total = 100) => session_params.shipping_amount = 600
            /\ (~free /\ total \in {200, 300}) => session_params.shipping_amount = 900
            /\ (~free /\ total >= 400) => session_params.shipping_amount = 1200
            /\ session_params.shipping_amount \in {0, 600, 900, 1200}
            /\ session_params.metadata.shipping_amount = AmountText(session_params.shipping_amount)
            /\ session_params.metadata.free_shipping_applied
                 = (IF free THEN <<"t", "r", "u", "e">> ELSE <<"f", "a", "l", "s", "e">>)

\* C15 witness: five candles at 2200 went to sessions.create with free
\* shipping although five candles are in the 1200 tier
C15_Witness ==
    /\ ck_calls = 1
    /\ ck_req.cart = <<CartItem(Lavander, Size17oz, QtyNumber(500))>>
    /\ line_items[1].unit_amount = 2200
    /\ session_params.shipping_amount = 0
    /\ session_params.metadata.free_shipping_applied = <<"t", "r", "u", "e">>


\* the unit weight the claim gives each size
UnitWeight(size) ==
    CASE size = <<"6", " ", "o", "z">> -> 10
      [] size = <<"1", "2", " ", "o", "z">> -> 18
      [] size = <<"1", "7", " ", "o", "z">> -> 24
      [] size = <<"w", "a", "x", " ", "m", "e", "l", "t">> -> 6
      [] OTHER -> 15

\* the sum of unit weight x qty over an item list, first item first
RECURSIVE SumUnitWeights(_)
SumUnitWeights(items) ==
    IF items = <<>> THEN 0
    ELSE UnitWeight(Head(items).size) * Head(items).qty + SumUnitWeights(Tail(items))

\* C16: the weight calculatePackageWeight returns is 4 plus the sum of unit
\* weight x qty over the items, and every reordering of the item list is given
\* the same weight.
C16_PackageWeight ==
    (pc = "weighed") =>
        /\ weightOz = 4 + SumUnitWeights(shipItems)
        /\ \A p \in Permutations(1..Len(shipItems)) :
              calculatePackageWeight([i \in 1..Len(shipItems) |-> shipItems[p[i]]]) = weightOz

\* C16 witness: two 17 oz candles, a wax melt and a candle of a size the
\* table does not hold weigh 4 + 48 + 6 + 15
C16_Witness ==
    /\ pc = "weighed"
    /\ shipItems = <<[size |-> Size17oz, qty |-> 2, scent |-> ApplePie],
                     [size |-> SizeWaxMelt, qty |-> 1, scent |-> ApplePie],
                     [size |-> Size16oz, qty |-> 1, scent |-> ApplePie]>>
    /\ weightOz = 73


\* C17: a verified event of another type than checkout.session.completed is
\* answered 200 at once: the invocation has finished without a call to any
\* external service (no session retrieval, no line-item listing, no shipment
\* creation or label purchase, no e-mail) and without a sendEmail attempt.
C17_OtherEventsNoSideEffects ==
    (VerifiedPost /\ req.type # "checkout.session.completed") =>
        /\ pc = "done" /\ res = 200
        /\ calls = <<>> /\ sendLog = <<>>
        /\ session = NoSession /\ shipmentResult = NoResult /\ storeSection = "unrendered"

\* C17 witness: after a completed payment of the session bought a label, a
\* verified event of another type for it was answered 200 and bought nothing
C17_Witness ==
    /\ pc = "done" /\ delivered = 2
    /\ VerifiedPost /\ req.type = "payment_intent.succeeded"
    /\ res = 200
    /\ purchases[req.id] = 1


\* C18: the customer e-mail carries no internal diagnostics: once customerHtml
\* is built it equals the content built from the order id, the session, the
\* items, the tracking code and the tracking link alone, with the label URL
\* and the shipment error message left out; so invocations that differ only in
\* the error message, the label URL or the shipment id build the same e-mail.
C18_CustomerEmailNoDiagnostics ==
    customerHtml.rendered =>
        customerHtml = CustomerHtml(req.id, session, lines, trackingCode, trackingUrl,
                                    Undefined, Undefined)

\* C18 witness: a customer e-mail was handed to the provider in an invocation
\* whose label has a URL and a shipment id
C18_Witness ==
    /\ customerHtml.rendered /\ pc = "done"
    /\ Truthy(labelUrl) /\ Truthy(trackingCode)
    /\ shipmentResult.shipmentId = "shp_2"
    /\ \E i \in 1..Len(sendLog) : sendLog[i] = [kind |-> "customer", result |-> "sent"]

\* C18 second witness: a customer e-mail was built after the label failed
\* with an error message
C18_WitnessError == customerHtml.rendered /\ Truthy(shippingError)

\* the recipient and the sender the handler gives sendEmail for an e-mail
\* (lines 343-344 and 418-421)
ArgsOf(kind) ==
    IF kind = "store"
    THEN [to |-> env.ORDER_NOTIFY_TO_EMAIL, from |-> env.ORDER_NOTIFY_FROM_EMAIL]
    ELSE [to |-> customerEmail,
          from |-> IF Truthy(env.CUSTOMER_CONFIRM_FROM_EMAIL)
                   THEN env.CUSTOMER_CONFIRM_FROM_EMAIL
                   ELSE env.ORDER_NOTIFY_FROM_EMAIL]

\* the credential, the sender or the recipient of an e-mail is absent
Absent(kind) ==
    \/ env.RESEND_API_KEY \in {Undefined, <<>>}
    \/ ArgsOf(kind).from \in {Undefined, <<>>}
    \/ ArgsOf(kind).to \in {Undefined, <<>>}

\* the calls to the e-mail provider made so far by the invocation
ProviderCalls == Len(SelectSeq(calls, LAMBDA c : c = "resend.emails.send"))

NotSkipped(e) == e.result # "skipped"

\* C19: a sendEmail whose credential, sender or recipient is absent returns a
\* result marked skipped and makes no call to the provider; with all three
\* present it calls the provider once and returns the provider's result or,
\* when the call threw, an error result: it never throws.
C19_SendEmailSkipsOrReports ==
    /\ \A i \in 1..Len(sendLog) :
          IF Absent(sendLog[i].kind)
          THEN sendLog[i].result = "skipped"
          ELSE sendLog[i].result \in {"sent", "error"}
    /\ ProviderCalls = Len(SelectSeq(sendLog, NotSkipped))

\* C19 witness: the merchant e-mail was skipped for want of a recipient, and
\* the provider threw on the customer e-mail
C19_Witness ==
    /\ env.RESEND_API_KEY # Undefined
    /\ env.ORDER_NOTIFY_FROM_EMAIL # Undefined /\ env.ORDER_NOTIFY_TO_EMAIL = Undefined
    /\ sendLog = <<[kind |-> "store", result |-> "skipped"],
                   [kind |-> "customer", result |-> "error"]>>
    /\ ProviderCalls = 1
    /\ pc = "done" /\ res = 200

SizeText(raw) == IF raw = Undefined THEN <<>> ELSE raw

DecimalDigits == {"0", "1", "2", "3", "4", "5", "6", "7", "8", "9"}

\* t is a numeric token: digits, with at most one decimal point that has a
\* digit on either side
IsNumericToken(t) ==
    /\ t # <<>>
    /\ \A i \in 1..Len(t) : t[i] \in DecimalDigits \cup {"."}
    /\ Cardinality({i \in 1..Len(t) : t[i] = "."}) <= 1
    /\ t[1] # "." /\ t[Len(t)] # "."

\* the pairs <<i, j>> such that the characters i..j of s are a numeric token
TokensOf(s) ==
    {p \in (1..Len(s)) \X (1..Len(s)) : p[1] <= p[2] /\ IsNumericToken(SubSeq(s, p[1], p[2]))}

\* the first numeric token of s: the leftmost one, taken as long as it goes
FirstToken(s) ==
    LET p == CHOOSE p \in TokensOf(s) :
                 \A q \in TokensOf(s) : p[1] < q[1] \/ (p[1] = q[1] /\ p[2] >= q[2])
    IN  SubSeq(s, p[1], p[2])

ValueOfDigit(c) == CHOOSE d \in 0..9 : NatToString(d) = <<c>>

RECURSIVE Power10(_)
Power10(n) == IF n = 0 THEN 1 ELSE 10 * Power10(n - 1)

\* the number a numeric token of at most two decimals denotes, in hundredths
TokenValue(t) ==
    LET dots == {i \in 1..Len(t) : t[i] = "."}
        point == IF dots = {} THEN Len(t) + 1 ELSE CHOOSE i \in dots : TRUE
        term(i) == IF i < point THEN ValueOfDigit(t[i]) * 100 * Power10(point - 1 - i)
                   ELSE IF i = point THEN 0
                   ELSE IF i = point + 1 THEN ValueOfDigit(t[i]) * 10
                   ELSE IF i = point + 2 THEN ValueOfDigit(t[i])
                   ELSE 0
        sum[i \in 0..Len(t)] == IF i = 0 THEN 0 ELSE sum[i - 1] + term(i)
    IN  sum[Len(t)]

\* t is written the way a number is printed: no zero before the integer part,
\* no zero at the end of the fraction
IsPrinted(t) ==
    /\ IsNumericToken(t)
    /\ (Len(t) >= 2 /\ t[1] = "0") => t[2] = "."
    /\ (\E i \in 1..Len(t) : t[i] = ".") => t[Len(t)] # "0"

\* text is the number of value v, printed, followed by " oz"
IsNumberOz(text, v) ==
    /\ Len(text) >= 4
    /\ SubSeq(text, Len(text) - 2, Len(text)) = <<" ", "o", "z">>
    /\ IsPrinted(SubSeq(text, 1, Len(text) - 3))
    /\ TokenValue(SubSeq(text, 1, Len(text) - 3)) = v

\* normalizeSize refused the size with the 400 invalid-size error
SizeRefused == ~sized.result.ok /\ sized.result.statusCode = 400

\* C21 as stated: a size text that contains a positive number anywhere is
\* given a size, and a text with no numeric token is refused with 400.
C21_AnyPositiveNumberAccepted ==
    sized.applied =>
        /\ (\E p \in TokensOf(SizeText(sized.raw)) :
                TokenValue(SubSeq(SizeText(sized.raw), p[1], p[2])) > 0)
              => sized.result.ok
        /\ TokensOf(SizeText(sized.raw)) = {} => SizeRefused

\* C21: normalizeSize goes by the first numeric token of the size text (digits
\* with an optional fraction): when that token is a positive number the result
\* is that number, printed, followed by " oz"; when the text has no numeric
\* token, or its first token is zero, the size is refused with the 400
\* invalid-size error.
C21_FirstNumberOz ==
    sized.applied =>
        LET text == SizeText(sized.raw)
        IN  IF TokensOf(text) = {} THEN SizeRefused
            ELSE IF TokenValue(FirstToken(text)) = 0 THEN SizeRefused
            ELSE /\ sized.result.ok
                 /\ IsNumberOz(sized.result.value, TokenValue(FirstToken(text)))

\* C21 witness: a size written with a needless zero at the end of its fraction is
\* returned as its number followed by " oz"
C21_Witness ==
    /\ sized.applied
    /\ sized.raw = <<"1", "2", ".", "5", "0", " ", "o", "z">>
    /\ sized.result = Value(<<"1", "2", ".", "5", " ", "o", "z">>)

\* the origins that may read a response, written out
ListedOrigins ==
    {<<"h", "t", "t", "p", "s", ":", "/", "/", "g", "r", "o", "o", "v", "e", "r", "r", ".", "g", "i", "t", "h", "u", "b", ".", "i", "o">>, <<"h", "t", "t", "p", "s", ":", "/", "/", "k", "e", "l", "l", "e", "y", "s", "c", "a", "n", "d", "l", "e", "s", ".", "c", "o", "m">>,
     <<"h", "t", "t", "p", "s", ":", "/", "/", "w", "w", "w", ".", "k", "e", "l", "l", "e", "y", "s", "c", "a", "n", "d", "l", "e", "s", ".", "c", "o", "m">>, <<"h", "t", "t", "p", ":", "/", "/", "l", "o", "c", "a", "l", "h", "o", "s", "t", ":", "5", "5", "0", "0">>,
     <<"h", "t", "t", "p", ":", "/", "/", "1", "2", "7", ".", "0", ".", "0", ".", "1", ":", "5", "5", "0", "0">>}

\* C22: once an endpoint has taken a request, of any method, its response
\* carries Access-Control-Allow-Origin only when the request's Origin header
\* is exactly one of the listed origins, and the value is then that origin;
\* for a missing or another origin the header is not set.
C22_CorsAllowList ==
    ck_pc # "idle" =>
        IF ck_req.origin \in ListedOrigins
        THEN ck_headers.allow_origin = ck_req.origin
        ELSE ck_headers.allow_origin = Undefined

\* C22 witness: a preflight request from an origin that only begins like a
\* listed one was answered without the header
C22_Witness ==
    /\ ck_pc = "done" /\ ck_req.method = "OPTIONS"
    /\ ck_req.origin = <<"h", "t", "t", "p", "s", ":", "/", "/", "k", "e", "l", "l", "e", "y", "s", "c", "a", "n", "d", "l", "e", "s", ".", "c", "o", "m", ".", "e", "v", "i", "l", ".", "e", "x", "a", "m", "p", "l", "e">>
    /\ ck_headers = [allow_origin |-> Undefined, allow_methods |-> "GET, OPTIONS"]
    /\ ck_res.status = 200

\* C22 second witness: a listed origin was given the header on a refused
\* session creation
C22_WitnessListed ==
    /\ ck_pc = "done" /\ ck_req.method = "POST" /\ ck_res.status = 400
    /\ ck_req.origin = <<"h", "t", "t", "p", "s", ":", "/", "/", "g", "r", "o", "o", "v", "e", "r", "r", ".", "g", "i", "t", "h", "u", "b", ".", "i", "o">>
    /\ ck_headers.allow_origin = ck_req.origin
    /\ ck_headers.allow_methods = "POST, OPTIONS"

\* C23 (as claimed): createShipment hands back a failure only when no label
\* was bought: whenever Shipment.buy succeeded in the invocation, the result is
\* success: true.
C23_FailureOnlyWithoutPurchase ==
    (pc = "ship_return" /\ boughtRate # NoRate) => shipmentResult.success

\* the calls createShipment makes to the shipping processor, in their order
ShipmentCallOrder ==
    <<"easypost.Shipment.create", "easypost.Shipment.buy", "easypost.Shipment.retrieve">>

\* the calls made so far to the shipping processor
ShipmentCalls == SelectSeq(calls, LAMBDA c : c \in {ShipmentCallOrder[i] : i \in 1..3})

\* C24: within one createShipment invocation the calls to the shipping
\* processor are a beginning of create, buy, retrieve, so each is made at most
\* once and in that order; buy is made only after create returned a shipment
\* with a non-empty rate list, and retrieve only after buy returned.
C24_ShipmentCallOrder ==
    /\ \E n \in 0..3 : ShipmentCalls = SubSeq(ShipmentCallOrder, 1, n)
    /\ Called("easypost.Shipment.buy") =>
          /\ shipment.created /\ shipment.hasRates /\ Len(shipment.rates) > 0
          /\ lowestRate \in {shipment.rates[i] : i \in 1..Len(shipment.rates)}
    /\ Called("easypost.Shipment.retrieve") => boughtRate = lowestRate /\ boughtRate # NoRate
    /\ pc = "ship_buy" => ShipmentCalls = SubSeq(ShipmentCallOrder, 1, 1)
    /\ pc = "ship_retrieve" => ShipmentCalls = SubSeq(ShipmentCallOrder, 1, 2)

\* C24 witness: an invocation that made the three calls and returned the label
C24_Witness ==
    /\ pc = "ship_return" /\ shipmentResult.success
    /\ calls = ShipmentCallOrder
    /\ Len(shipment.rates) >= 2

\* the place of an external call among the steps of the webhook handler
StepRank(call) ==
    CASE call = "stripe.sessions.retrieve" -> 1
      [] call = "stripe.sessions.listLineItems" -> 2
      [] call \in {"easypost.Shipment.create", "easypost.Shipment.buy",
                   "easypost.Shipment.retrieve"} -> 3
      [] call = "resend.emails.send" -> 4

\* the calls made so far are in the order of the steps, and the session is
\* fetched and its line items are listed once
StepsInOrder ==
    /\ \A i, j \in 1..Len(calls) : i < j => StepRank(calls[i]) <= StepRank(calls[j])
    /\ \A i, j \in 1..Len(calls) :
          (i < j /\ StepRank(calls[i]) <= 2) => StepRank(calls[i]) < StepRank(calls[j])

\* the shipment attempt of the invocation is over: createShipment returned, or
\* the attempt threw before calling it
ShipmentAttemptFinished ==
    /\ pc \in {"store_email", "customer_email", "done"}
    /\ Called("stripe.sessions.listLineItems")
    /\ shipmentResult.outcome # "none" \/ shippingError = NotAFunctionMessage

\* the e-mails are attempted merchant first, customer second
EmailsInOrder ==
    \/ sendLog = <<>>
    \/ Len(sendLog) = 1 /\ sendLog[1].kind = "store"
    \/ Len(sendLog) = 2 /\ sendLog[1].kind = "store" /\ sendLog[2].kind = "customer"

\* both e-mail steps are over (the customer step sends nothing when the
\* session has no address)
EmailStepsFinished == storeSection # "unrendered" /\ customerHtml.rendered

C26_LabelOnlyForWeighedItems ==
    (VerifiedCompleted /\ Called("easypost.Shipment.buy") /\ boughtRate # NoRate) =>
        /\ Len(lines) >= 1 /\ Len(shipItems) >= 1
        /\ weightOz > BOX_WEIGHT

\* what the webhook handler rebuilds from a line item of the session, once
\* the payment processor lists it with the display name as its description
Reconstructed(li) == ItemForShipping(LineOf(LineItem(li.quantity, li.name)))

\* C27: for every cart line the session builder accepts, the display name it
\* hands to the payment processor is parsed back by the webhook handler into
\* the scent and the size string that were priced: the size pattern matches
\* the name, so the "12 oz" default is not what decides the weight.
C27_DisplayNameRoundTrip ==
    (ck_pc \in {"create", "done"} /\ line_items # <<>>) =>
        /\ Len(line_items) = Len(ck_req.cart)
        /\ \A i \in 1..Len(line_items) :
              LET priced == NormalizeItem(ck_req.cart[i]).value
              IN  /\ PriceKey(priced.scent, priced.size) \in DOMAIN PRICE_MAP
                  /\ Reconstructed(line_items[i]).scent = priced.scent
                  /\ Reconstructed(line_items[i]).size = priced.size
                  /\ SizeMatch(line_items[i].name) = priced.size

\* C27 witness: a line written "16 OZ" was priced as "16 oz" and its session
\* was created
C27_Witness ==
    /\ ck_pc = "done" /\ ck_res.url
    /\ Len(line_items) = 1
    /\ ck_req.cart[1].size = <<"1", "6", " ", "O", "Z">>
    /\ Reconstructed(line_items[1]).size = Size16oz
    /\ Reconstructed(line_items[1]).scent = ApplePie

\* the size of a key `${scent}|${size}` of the price table: what follows the bar
SizeOfKey(k) ==
    LET bar == CHOOSE i \in 1..Len(k) : k[i] = "|"
    IN  SubSeq(k, bar + 1, Len(k))

\* the sizes the price table holds a price for
PricedSizes == {SizeOfKey(k) : k \in DOMAIN PRICE_MAP}

\* the number of ounces a size string starts with
OuncesOf(size) == DigitsValue(SubSeq(size, 1, RunEnd(size, 1, "digit")))

\* C28: every size of the price table has its own entry in the weight table,
\* so no weighed item of a priced size counts at the weight of unknown sizes,
\* and of two items of priced sizes and equal quantity the one of the larger
\* size does not weigh less.
C28_CatalogSizesWeighed ==
    (pc = "weighed") =>
        \A i \in 1..Len(shipItems) :
            shipItems[i].size \in PricedSizes =>
                /\ shipItems[i].size \in DOMAIN CANDLE_WEIGHTS
                /\ ItemWeight(shipItems[i]) # FALLBACK_WEIGHT * shipItems[i].qty
                /\ \A j \in 1..Len(shipItems) :
                      ( /\ shipItems[j].size \in PricedSizes
                        /\ shipItems[j].qty = shipItems[i].qty
                        /\ OuncesOf(shipItems[i].size) > OuncesOf(shipItems[j].size) )
                          => ItemWeight(shipItems[i]) >= ItemWeight(shipItems[j])

\* the invocations whose run is awaiting the network
InFlight == {i \in 1..Len(invocations) : invocations[i].stage \in {"fetch", "json"}}

\* C29: whatever the order of invocations and of network answers, at most one
\* run is awaiting the network at a time, and an invocation that found the
\* in-memory flag set or read "1" from the stored key returned without
\* calling run.
C29_NoDoubleSubmit ==
    /\ Cardinality(InFlight) <= 1
    /\ \A i \in 1..Len(invocations) :
          (invocations[i].foundFlag \/ invocations[i].foundKey) =>
              invocations[i].stage = "returned"

\* C29 witness: with a store that takes no write, two more invocations came
\* while the first run awaited the response body, and both returned
C29_Witness ==
    /\ localStorage.access = "full"
    /\ Len(invocations) = 3
    /\ invocations[1].stage = "json"
    /\ invocations[2].stage = "returned" /\ invocations[2].foundFlag /\ ~invocations[2].foundKey
    /\ invocations[3].stage = "returned"

\* C30 as stated: once the latest run has failed, the flag and the stored key
\* are cleared and the button is enabled, and an invocation that comes after
\* a failed run calls run; once the latest run has completed, the flag and the
\* stored key are both set, and an invocation that comes after it returns
\* without calling run.
C30_LockReleasedExactlyOnFailure ==
    /\ (LatestRun = "failed") =>
          /\ ~checkoutSubmitting
          /\ localStorage.checkoutInProgress # "1"
          /\ ~btn.disabled
    /\ (LatestRun = "completed") =>
          /\ checkoutSubmitting
          /\ localStorage.checkoutInProgress = "1"
    /\ \A i \in 1..Len(invocations) :
          /\ invocations[i].earlier = "failed" => invocations[i].stage # "returned"
          /\ invocations[i].earlier = "completed" => invocations[i].stage = "returned"

\* C30 amended: as stated, except that after a completed run the stored key
\* is set only where the store took the write of line 63; the flag is set and
\* the button disabled whatever the store does.
C30_LockReleasedOnFailureKeptOnSuccess ==
    /\ (LatestRun = "failed") =>
          /\ ~checkoutSubmitting
          /\ localStorage.checkoutInProgress # "1"
          /\ ~btn.disabled
    /\ (LatestRun = "completed") =>
          /\ checkoutSubmitting
          /\ btn.disabled
          /\ (localStorage.checkoutInProgress = "1") <=> (localStorage.access = "open")
    /\ \A i \in 1..Len(invocations) :
          /\ invocations[i].earlier = "failed" => invocations[i].stage # "returned"
          /\ invocations[i].earlier = "completed" => invocations[i].stage = "returned"

\* C30 witness: a run failed on the server's answer, the next invocation ran
\* and completed, and the invocation after that returned
C30_Witness ==
    /\ Len(invocations) = 3
    /\ invocations[1].stage = "failed" /\ invocations[1].error = "Checkout failed."
    /\ invocations[2].earlier = "failed" /\ invocations[2].stage = "completed"
    /\ invocations[3].earlier = "completed" /\ invocations[3].stage = "returned"
    /\ localStorage.checkoutInProgress = "1"
=============================================================================
